---------------------------- MODULE Spec2Model ----------------------------
(***************************************************************************)
(* A model of security-lab/detection/ja4_extractor.py: the raw ClientHello *)
(* parser parse_client_hello_raw, stepped statement group by statement     *)
(* group over a byte buffer, and the fingerprint engine calculate_ja4.     *)
(*                                                                         *)
(* Python values are modelled as follows.  bytes and list are sequences    *)
(* (index k of Python is index k+1 here), str is the sequence of its code  *)
(* points, None is the record [none |-> TRUE] (NoneStr where a str may     *)
(* stand), an exception in flight is the name of its class.                *)
(***************************************************************************)
EXTENDS Integers, Sequences, FiniteSets, TLC

VARIABLES
    data,                 \* the argument of parse_client_hello_raw
    tampered,             \* how many bytes of the well-formed record were overwritten
    truncated,            \* whether the record was cut short
    wire,                 \* the fields the record was built from, None for a short buffer
    pc,                   \* position of the parser in its code
    exc,                  \* the exception in flight, "" for none
    result,               \* what the call returned
    stderr,               \* the lines printed to sys.stderr
    offset,
    client_version,
    cipher_suites_len,
    i,
    cipher_suites,
    extensions,
    sni,
    alpn_protocols,
    supported_versions,
    signature_algorithms,
    ext_end,
    ext_type,
    ext_len,
    ext_data,
    alpn_offset,
    list_len,             \* alpn_list_len, ver_list_len or sig_list_len
    reads,                \* the last read made inside a variable-length field
    malformed,            \* the structural violations of the input met so far
    client_hello,         \* the ClientHello object handed to calculate_ja4
    inserted,             \* how many GREASE codes were inserted into it
    swapped,              \* how many times two entries of a list changed places
    calls,                \* the calls of calculate_ja4: argument and result
    current,              \* the thread whose call is running, 0 for none
    frames,               \* the local variables of the calls that are not running
    alone,                \* what the calls returned when they ran one after another
    preempted,            \* the threads that lost the processor inside their call
    probe,                \* a 16-bit code and what is_grease said of it
    packets,              \* the packets rdpcap read from the capture
    pkt_index,            \* how many of them the loop of extract_from_pcap took
    batch_pc,             \* position of extract_from_pcap in its code
    pkt_ja4,              \* ja4, the fingerprint of the packet at hand
    results               \* the list extract_from_pcap builds

control == <<pc, exc, result>>
fields == <<client_version, cipher_suites, extensions, sni, alpn_protocols,
            supported_versions, signature_algorithms>>
extLocals == <<ext_end, ext_type, ext_len, ext_data, alpn_offset, list_len>>
input == <<data, tampered, truncated, wire>>
engine == <<client_hello, inserted, swapped, calls>>
threads == <<current, frames, alone, preempted>>
batch == <<packets, pkt_index, batch_pc, pkt_ja4, results>>
others == <<probe, batch>>
vars == <<input, control, stderr, offset, cipher_suites_len, i, fields,
          extLocals, reads, malformed, engine, threads, others>>

-----------------------------------------------------------------------------
(* Bounds of the model. *)

\* How many bytes of a well-formed record an input may have overwritten.
MaxTamper == 1

\* The longest of the buffers that are enumerated byte by byte.
MaxShort == 8

-----------------------------------------------------------------------------
(* Program constants. *)

EXT_SNI == 0
EXT_ALPN == 16
EXT_SUPPORTED_VERSIONS == 43
EXT_SIGNATURE_ALGORITHMS == 13

\* content type "handshake" and handshake type "ClientHello"
CT_HANDSHAKE == 22
HT_CLIENT_HELLO == 1

\* the bytes of the Random field, which the parser skips
RANDOM_LEN == 32

GREASE_VALUES ==
    { \h0a0a, \h1a1a, \h2a2a, \h3a3a, \h4a4a, \h5a5a,
      \h6a6a, \h7a7a, \h8a8a, \h9a9a, \haaaa, \hbaba,
      \hcaca, \hdada, \heaea, \hfafa }

-----------------------------------------------------------------------------
(* Python's values and primitives. *)

None == [none |-> TRUE]

\* None where a str may stand (Optional[str]): a sequence that is no string,
\* since no code point is negative.
NoneStr == <<-1>>

\* A faulty variant: the first number, however large.
Unclamped(a, b) == a

Min(a, b) == IF a < b THEN a ELSE b

\* s[a:b] for 0 <= a: never raises, it returns what is there.
Slice(s, a, b) ==
    IF a >= Min(b, Len(s)) THEN <<>> ELSE SubSeq(s, a + 1, Min(b, Len(s)))

\* s[a:] for 0 <= a
SliceFrom(s, a) == Slice(s, a, Len(s))

\* s[k] for 0 <= k raises IndexError unless k < len(s).
InRange(s, k) == k < Len(s)
At(s, k) == s[k + 1]

\* struct.unpack(">H", b) raises struct.error unless len(b) = 2.
CanUnpackH(b) == Len(b) = 2
UnpackH(b) == b[1] * 256 + b[2]

\* struct.unpack(">I", b'\x00' + b) raises struct.error unless len(b) = 3.
CanUnpackI(b) == 1 + Len(b) = 4
UnpackI(b) == (b[1] * 256 + b[2]) * 256 + b[3]


\* bytes.decode('utf-8'): the length of the sequence a lead byte opens, 0 for
\* a byte that cannot open one.
Utf8SeqLen(b1) ==
    IF b1 < 128 THEN 1
    ELSE IF b1 >= 194 /\ b1 <= 223 THEN 2
    ELSE IF b1 >= 224 /\ b1 <= 239 THEN 3
    ELSE IF b1 >= 240 /\ b1 <= 244 THEN 4
    ELSE 0

\* Whether the n bytes at the head of b are a well-formed sequence (no overlong
\* form, no surrogate, nothing above U+10FFFF).
Utf8HeadOk(b, n) ==
    /\ n >= 1
    /\ Len(b) >= n
    /\ n >= 2 => /\ b[2] >= (IF b[1] = 224 THEN 160 ELSE IF b[1] = 240 THEN 144 ELSE 128)
                 /\ b[2] <= (IF b[1] = 237 THEN 159 ELSE IF b[1] = 244 THEN 143 ELSE 191)
    /\ n >= 3 => (b[3] >= 128 /\ b[3] <= 191)
    /\ n >= 4 => (b[4] >= 128 /\ b[4] <= 191)

Utf8CodePoint(b, n) ==
    CASE n = 1 -> b[1]
      [] n = 2 -> (b[1] - 192) * 64 + (b[2] - 128)
      [] n = 3 -> ((b[1] - 224) * 64 + (b[2] - 128)) * 64 + (b[3] - 128)
      [] n = 4 -> (((b[1] - 240) * 64 + (b[2] - 128)) * 64 + (b[3] - 128)) * 64
                  + (b[4] - 128)

\* bytes.decode('utf-8'): [ok |-> FALSE] stands for UnicodeDecodeError.
RECURSIVE Utf8Decode(_)
Utf8Decode(b) ==
    IF Len(b) = 0 THEN [ok |-> TRUE, str |-> <<>>]
    ELSE LET n == Utf8SeqLen(b[1])
         IN  IF ~Utf8HeadOk(b, n) THEN [ok |-> FALSE, str |-> <<>>]
             ELSE LET rest == Utf8Decode(SubSeq(b, n + 1, Len(b)))
                  IN  [ok |-> rest.ok,
                       str |-> IF rest.ok THEN <<Utf8CodePoint(b, n)>> \o rest.str
                               ELSE <<>>]

-----------------------------------------------------------------------------
(* The wire format the parser reads, used to build the input buffers. *)

U16(n) == <<n \div 256, n % 256>>
U24(n) == <<n \div 65536, (n \div 256) % 256, n % 256>>

RECURSIVE Cat(_)
Cat(ss) == IF ss = <<>> THEN <<>> ELSE Head(ss) \o Cat(Tail(ss))

CatU16(codes) == Cat([k \in 1..Len(codes) |-> U16(codes[k])])

\* one extension: type, length, body
ExtBytes(e) == U16(e.type) \o U16(Len(e.body)) \o e.body

SniExt(name) ==
    [type |-> EXT_SNI,
     body |-> U16(Len(name) + 3) \o <<0>> \o U16(Len(name)) \o name]

AlpnExt(protos) ==
    LET list == Cat([k \in 1..Len(protos) |-> <<Len(protos[k])>> \o protos[k]])
    IN  [type |-> EXT_ALPN, body |-> U16(Len(list)) \o list]

SupportedVersionsExt(versions) ==
    [type |-> EXT_SUPPORTED_VERSIONS,
     body |-> <<2 * Len(versions)>> \o CatU16(versions)]

SignatureAlgorithmsExt(algs) ==
    [type |-> EXT_SIGNATURE_ALGORITHMS,
     body |-> U16(2 * Len(algs)) \o CatU16(algs)]

OtherExt(t, body) == [type |-> t, body |-> body]

\* The ClientHello body: version, random, session id, cipher suites,
\* compression methods and, when w.block, the extensions block.
HelloBody(w) ==
    LET exts == Cat([k \in 1..Len(w.exts) |-> ExtBytes(w.exts[k])])
    IN  U16(w.version) \o [k \in 1..RANDOM_LEN |-> 0]
        \o <<Len(w.sid)>> \o w.sid
        \o U16(2 * Len(w.ciphers)) \o CatU16(w.ciphers)
        \o <<Len(w.comp)>> \o w.comp
        \o (IF w.block THEN U16(Len(exts)) \o exts ELSE <<>>)

\* The TLS record: record header (type, version 0x0301, length), handshake
\* header (type, 24-bit length), body.
TLSRecord(w) ==
    LET body == HelloBody(w)
    IN  <<CT_HANDSHAKE>> \o U16(\h0301) \o U16(Len(body) + 4)
        \o <<HT_CLIENT_HELLO>> \o U24(Len(body)) \o body

\* "ab" with a two-byte character: a, e-acute
NameBytes == <<97, 195, 169>>
\* "h2" and "x"
Protos == << <<104, 50>>, <<120>> >>

ExtLists ==
    { <<>>,
      << SniExt(NameBytes) >>,
      << OtherExt(\h1a1a, <<>>), AlpnExt(Protos),
         OtherExt(\h0033, <<0, 16, 0, 0>>), SniExt(NameBytes) >>,
      << SupportedVersionsExt(<<\h0a0a, \h0304>>),
         SignatureAlgorithmsExt(<<\h0403, \h0804>>),
         OtherExt(\h0033, <<>>), OtherExt(\h0033, <<>>) >> }

CipherLists == { <<\h1301>>, <<\h0a0a, \hc02b, \h1301, \hc02b>> }

\* The well-formed records the inputs are derived from.
WireHellos ==
    [version : {\h0303}, sid : {<<7>>}, ciphers : CipherLists,
     comp : {<<0>>}, block : {TRUE}, exts : ExtLists]
    \cup
    [version : {\h0303}, sid : {<<7>>}, ciphers : CipherLists,
     comp : {<<0>>}, block : {FALSE}, exts : {<<>>}]

\* The bytes a tampered byte may be replaced by.
TamperValues(b) == {(b + 1) % 256, (b + 255) % 256, 255}

\* The bytes of the buffers that are enumerated byte by byte: the two type
\* codes the parser accepts and one it does not.
ShortBytes == {0, HT_CLIENT_HELLO, CT_HANDSHAKE}

\* The Random field is never read: tampering with it changes nothing.
TamperPositions(buf) ==
    {p \in 1..Len(buf) : p <= 11 \/ p > 11 + RANDOM_LEN}

-----------------------------------------------------------------------------
(* The state before the call. *)

NoRead == [field |-> "none", lo |-> 0, hi |-> 0, blo |-> 0, bhi |-> 0]

\* The parser's variables before a call, but for the buffer.
ParserStart ==
    /\ tampered = 0
    /\ truncated = FALSE
    /\ pc = "input"
    /\ exc = ""
    /\ result = [pending |-> TRUE]
    /\ stderr = <<>>
    /\ offset = 0
    /\ client_version = 0
    /\ cipher_suites_len = 0
    /\ i = 0
    /\ cipher_suites = <<>>
    /\ extensions = <<>>
    /\ sni = NoneStr
    /\ alpn_protocols = <<>>
    /\ supported_versions = <<>>
    /\ signature_algorithms = <<>>
    /\ ext_end = 0
    /\ ext_type = 0
    /\ ext_len = 0
    /\ ext_data = <<>>
    /\ alpn_offset = 0
    /\ list_len = 0
    /\ reads = NoRead
    /\ malformed = {}

\* One call at a time: no other thread.
NotConcurrent == [concurrent |-> FALSE, outcomes |-> <<>>, printed |-> <<>>]

NoThreads ==
    /\ current = 0
    /\ frames = <<>>
    /\ alone = NotConcurrent
    /\ preempted = {}

\* is_grease and extract_from_pcap are not called.
NoProbe == [code |-> 0, called |-> FALSE, answer |-> FALSE]

NoBatch ==
    /\ probe = NoProbe
    /\ packets = <<>>
    /\ pkt_index = 0
    /\ batch_pc = "idle"
    /\ pkt_ja4 = None
    /\ results = <<>>

Init ==
    /\ wire \in WireHellos
    /\ data = TLSRecord(wire)
    /\ ParserStart
    /\ client_hello = None
    /\ inserted = 0
    /\ swapped = 0
    /\ calls = <<>>
    /\ NoThreads
    /\ NoBatch

parserLocals == <<control, stderr, offset, cipher_suites_len, i, fields,
                  extLocals, reads, malformed>>

\* The caller hands over a record with one more byte changed.
Tamper ==
    /\ pc = "input"
    /\ ~truncated
    /\ tampered < MaxTamper
    /\ \E p \in TamperPositions(data) :
         \E v \in TamperValues(data[p]) :
            data' = [data EXCEPT ![p] = v]
    /\ tampered' = tampered + 1
    /\ UNCHANGED <<truncated, wire, parserLocals, engine, threads, others>>

\* The caller hands over a record cut short.
Truncate ==
    /\ pc = "input"
    /\ ~truncated
    /\ tampered = 0
    /\ \E n \in 0..(Len(data) - 1) : data' = SubSeq(data, 1, n)
    /\ truncated' = TRUE
    /\ UNCHANGED <<tampered, wire, parserLocals, engine, threads, others>>

\* The caller hands over any buffer of at most MaxShort bytes.
Short ==
    /\ pc = "input"
    /\ ~truncated
    /\ tampered = 0
    /\ \E n \in 0..MaxShort : data' \in [1..n -> ShortBytes]
    /\ truncated' = TRUE
    /\ wire' = None
    /\ UNCHANGED <<tampered, parserLocals, engine, threads, others>>

\* parse_client_hello_raw(data) is called: offset = 0.
Call ==
    /\ pc = "input"
    /\ pc' = "record_header"
    /\ offset' = 0
    /\ UNCHANGED <<engine, threads, others, input, exc, result, stderr, cipher_suites_len, i, fields,
                   extLocals, reads, malformed>>

-----------------------------------------------------------------------------
(* Control flow: raise, return, go on. *)

Throw(e) == pc' = "except" /\ exc' = e /\ result' = result
Return(v) == pc' = "done" /\ exc' = "" /\ result' = v
Goto(l) == pc' = l /\ exc' = exc /\ result' = result

\* Narrower except clauses: "except IndexError", "except struct.error".
OuterCatchesIndexErrorOnly(e) == e = "IndexError"
OuterCatchesStructErrorOnly(e) == e = "struct.error"

\* "except Exception" of the function body: every exception the body can
\* raise (IndexError, struct.error, UnicodeDecodeError) is an Exception.
OuterCatches(e) == e \in {"IndexError", "struct.error", "UnicodeDecodeError"}

\* A narrower inner except clause: "except (IndexError, struct.error)".
InnerCatchesNoDecodeError(e) == e \in {"IndexError", "struct.error"}

\* "except Exception: pass" around the decoding of one extension body.
InnerCatches(e) == e \in {"IndexError", "struct.error", "UnicodeDecodeError"}

\* An exception raised inside one of the inner try blocks: "pass", and the
\* parser goes on after the if/elif chain.
InnerRaise(e) == IF InnerCatches(e) THEN Goto("ext_next") ELSE Throw(e)

-----------------------------------------------------------------------------
(* What is wrong with the input at the place the parser has reached: a      *)
(* declared length that exceeds the bytes that remain, or host-name bytes   *)
(* that are not UTF-8.  It is recorded, it steers nothing.                  *)

Exceeds(declared, remaining) == declared > remaining

Violations ==
    CASE pc = "record_header" ->
           IF CanUnpackH(Slice(data, 3, 5))
              /\ Exceeds(UnpackH(Slice(data, 3, 5)), Len(data) - 5)
           THEN {"record_length"} ELSE {}
      [] pc = "session_id" ->
           IF InRange(data, offset)
              /\ Exceeds(At(data, offset), Len(data) - (offset + 1))
           THEN {"session_id"} ELSE {}
      [] pc = "cipher_suites_len" ->
           IF CanUnpackH(Slice(data, offset, offset + 2))
              /\ Exceeds(UnpackH(Slice(data, offset, offset + 2)),
                         Len(data) - (offset + 2))
           THEN {"cipher_suites"} ELSE {}
      [] pc = "compression" ->
           IF InRange(data, offset)
              /\ Exceeds(At(data, offset), Len(data) - (offset + 1))
           THEN {"compression"} ELSE {}
      [] pc = "extensions_block" ->
           IF CanUnpackH(Slice(data, offset, offset + 2))
              /\ Exceeds(UnpackH(Slice(data, offset, offset + 2)),
                         Len(data) - (offset + 2))
           THEN {"extensions_block"} ELSE {}
      [] pc = "ext_loop" ->
           IF offset < ext_end
              /\ CanUnpackH(Slice(data, offset + 2, offset + 4))
              /\ Exceeds(UnpackH(Slice(data, offset + 2, offset + 4)),
                         Len(data) - (offset + 4))
           THEN {"extension"} ELSE {}
      [] pc = "sni" ->
           IF Len(ext_data) >= 5
           THEN LET sni_len == UnpackH(Slice(ext_data, 3, 5))
                IN  (IF Exceeds(sni_len, Len(ext_data) - 5)
                     THEN {"sni_name"} ELSE {})
                    \cup
                    (IF ~Utf8Decode(Slice(ext_data, 5, 5 + sni_len)).ok
                     THEN {"sni_encoding"} ELSE {})
           ELSE {}
      [] pc = "alpn_len" ->
           IF CanUnpackH(Slice(ext_data, 0, 2))
              /\ Exceeds(UnpackH(Slice(ext_data, 0, 2)), Len(ext_data) - 2)
           THEN {"alpn_list"} ELSE {}
      [] pc = "alpn_loop" ->
           IF alpn_offset < 2 + list_len /\ InRange(ext_data, alpn_offset)
              /\ Exceeds(At(ext_data, alpn_offset),
                         Len(ext_data) - (alpn_offset + 1))
           THEN {"alpn_name"} ELSE {}
      [] pc = "ver_list_len" ->
           IF InRange(ext_data, 0)
              /\ Exceeds(At(ext_data, 0), Len(ext_data) - 1)
           THEN {"supported_versions"} ELSE {}
      [] pc = "sig_list_len" ->
           IF CanUnpackH(Slice(ext_data, 0, 2))
              /\ Exceeds(UnpackH(Slice(ext_data, 0, 2)), Len(ext_data) - 2)
           THEN {"signature_algorithms"} ELSE {}
      [] OTHER -> {}

-----------------------------------------------------------------------------
(* parse_client_hello_raw, one action per group of statements. *)

\* A faulty variant: the handshake type is not looked at.
IsClientHelloUnchecked(handshake_type) == TRUE

\* content_type != 0x16 and handshake_type != 0x01 return None.
IsHandshake(content_type) == content_type = CT_HANDSHAKE
IsClientHello(handshake_type) == handshake_type = HT_CLIENT_HELLO

\* TLS record header: content type, version, length.
RecordHeader ==
    /\ pc = "record_header"
    /\ malformed' = malformed \cup Violations
    /\ UNCHANGED <<engine, threads, others, input, stderr, cipher_suites_len, i, fields, extLocals, reads>>
    /\ IF ~InRange(data, offset)
         THEN Throw("IndexError") /\ UNCHANGED offset
       ELSE IF ~IsHandshake(At(data, offset))
         THEN Return(None) /\ UNCHANGED offset
       ELSE IF \/ ~CanUnpackH(Slice(data, offset + 1, offset + 3))
               \/ ~CanUnpackH(Slice(data, offset + 3, offset + 5))
         THEN Throw("struct.error") /\ UNCHANGED offset
       ELSE Goto("handshake_header") /\ offset' = offset + 5

\* Handshake header: type, 24-bit length.
HandshakeHeader ==
    /\ pc = "handshake_header"
    /\ malformed' = malformed \cup Violations
    /\ UNCHANGED <<engine, threads, others, input, stderr, cipher_suites_len, i, fields, extLocals, reads>>
    /\ IF ~InRange(data, offset)
         THEN Throw("IndexError") /\ UNCHANGED offset
       ELSE IF ~IsClientHello(At(data, offset))
         THEN Return(None) /\ UNCHANGED offset
       ELSE IF ~CanUnpackI(Slice(data, offset + 1, offset + 4))
         THEN Throw("struct.error") /\ UNCHANGED offset
       ELSE Goto("client_version") /\ offset' = offset + 4

\* client_version, then the Random field is skipped.
ClientVersion ==
    /\ pc = "client_version"
    /\ malformed' = malformed \cup Violations
    /\ UNCHANGED <<engine, threads, others, input, stderr, cipher_suites_len, i, cipher_suites, extensions,
                   sni, alpn_protocols, supported_versions, signature_algorithms,
                   extLocals, reads>>
    /\ IF ~CanUnpackH(Slice(data, offset, offset + 2))
         THEN Throw("struct.error") /\ UNCHANGED <<offset, client_version>>
       ELSE /\ Goto("session_id")
            /\ client_version' = UnpackH(Slice(data, offset, offset + 2))
            /\ offset' = offset + 2 + RANDOM_LEN

\* Session ID: one length byte, the id is skipped.
SessionId ==
    /\ pc = "session_id"
    /\ malformed' = malformed \cup Violations
    /\ UNCHANGED <<engine, threads, others, input, stderr, cipher_suites_len, i, fields, extLocals, reads>>
    /\ IF ~InRange(data, offset)
         THEN Throw("IndexError") /\ UNCHANGED offset
       ELSE Goto("cipher_suites_len") /\ offset' = offset + 1 + At(data, offset)

\* The length of the cipher-suite block; cipher_suites = [].
CipherSuitesLen ==
    /\ pc = "cipher_suites_len"
    /\ malformed' = malformed \cup Violations
    /\ UNCHANGED <<engine, threads, others, input, stderr, client_version, extensions, sni, alpn_protocols,
                   supported_versions, signature_algorithms, extLocals, reads>>
    /\ IF ~CanUnpackH(Slice(data, offset, offset + 2))
         THEN Throw("struct.error")
              /\ UNCHANGED <<offset, cipher_suites_len, i, cipher_suites>>
       ELSE /\ Goto("cipher_loop")
            /\ cipher_suites_len' = UnpackH(Slice(data, offset, offset + 2))
            /\ offset' = offset + 2
            /\ cipher_suites' = <<>>
            /\ i' = 0

\* The two bytes the loop body hands to struct.unpack for index k.
CipherBytes(buf, off, k) == Slice(buf, off + k, off + k + 2)

\* for i in range(0, cipher_suites_len, 2): one pass of the body, or the end
\* of the loop and "offset += cipher_suites_len".
CipherLoop ==
    /\ pc = "cipher_loop"
    /\ malformed' = malformed \cup Violations
    /\ UNCHANGED <<engine, threads, others, input, stderr, cipher_suites_len, client_version, extensions,
                   sni, alpn_protocols, supported_versions, signature_algorithms,
                   extLocals>>
    /\ IF i < cipher_suites_len
         THEN LET b == CipherBytes(data, offset, i)
              IN  /\ reads' = [field |-> "cipher_suites",
                               lo |-> offset + i, hi |-> offset + i + Len(b),
                               blo |-> offset, bhi |-> offset + cipher_suites_len]
                  /\ IF ~CanUnpackH(b)
                       THEN Throw("struct.error")
                            /\ UNCHANGED <<offset, i, cipher_suites>>
                     ELSE /\ Goto("cipher_loop")
                          /\ cipher_suites' = Append(cipher_suites, UnpackH(b))
                          /\ i' = i + 2
                          /\ UNCHANGED offset
       ELSE /\ Goto("compression")
            /\ offset' = offset + cipher_suites_len
            /\ UNCHANGED <<i, cipher_suites, reads>>

\* Compression methods: one length byte, the methods are skipped.
Compression ==
    /\ pc = "compression"
    /\ malformed' = malformed \cup Violations
    /\ UNCHANGED <<engine, threads, others, input, stderr, cipher_suites_len, i, fields, extLocals, reads>>
    /\ IF ~InRange(data, offset)
         THEN Throw("IndexError") /\ UNCHANGED offset
       ELSE Goto("extensions_block") /\ offset' = offset + 1 + At(data, offset)

\* The result lists are initialised; if bytes remain, the length of the
\* extensions block is read.
ExtensionsBlock ==
    /\ pc = "extensions_block"
    /\ malformed' = malformed \cup Violations
    /\ UNCHANGED <<engine, threads, others, input, stderr, cipher_suites_len, i, client_version,
                   cipher_suites, ext_type, ext_len, ext_data, alpn_offset,
                   list_len, reads>>
    /\ extensions' = <<>>
    /\ sni' = NoneStr
    /\ alpn_protocols' = <<>>
    /\ supported_versions' = <<>>
    /\ signature_algorithms' = <<>>
    /\ IF offset < Len(data)
         THEN IF ~CanUnpackH(Slice(data, offset, offset + 2))
                THEN Throw("struct.error") /\ UNCHANGED <<offset, ext_end>>
              ELSE /\ Goto("ext_loop")
                   /\ offset' = offset + 2
                   /\ ext_end' = offset + 2 + UnpackH(Slice(data, offset, offset + 2))
       ELSE Goto("return") /\ UNCHANGED <<offset, ext_end>>

\* Where the if/elif chain sends an extension.
Dispatch(t, n) ==
    IF t = EXT_SNI /\ n > 0 THEN "sni"
    ELSE IF t = EXT_ALPN /\ n > 0 THEN "alpn_len"
    ELSE IF t = EXT_SUPPORTED_VERSIONS /\ n > 0 THEN "ver_list_len"
    ELSE IF t = EXT_SIGNATURE_ALGORITHMS /\ n > 0 THEN "sig_list_len"
    ELSE "ext_next"

\* ext_data = data[offset+4:offset+4+ext_len]
ExtData(buf, off, n) == Slice(buf, off + 4, off + 4 + n)

\* while offset < ext_end: the extension's type and length are read, its
\* type is recorded and its body is sliced out.
ExtLoop ==
    /\ pc = "ext_loop"
    /\ malformed' = malformed \cup Violations
    /\ UNCHANGED <<engine, threads, others, input, stderr, offset, cipher_suites_len, i, client_version,
                   cipher_suites, sni, alpn_protocols, supported_versions,
                   signature_algorithms, ext_end, alpn_offset, list_len>>
    /\ IF offset < ext_end
         THEN IF \/ ~CanUnpackH(Slice(data, offset, offset + 2))
                 \/ ~CanUnpackH(Slice(data, offset + 2, offset + 4))
                THEN Throw("struct.error")
                     /\ UNCHANGED <<extensions, ext_type, ext_len, ext_data, reads>>
              ELSE LET t == UnpackH(Slice(data, offset, offset + 2))
                       n == UnpackH(Slice(data, offset + 2, offset + 4))
                   IN  /\ ext_type' = t
                       /\ ext_len' = n
                       /\ ext_data' = ExtData(data, offset, n)
                       /\ extensions' = Append(extensions, t)
                       /\ reads' = [field |-> "extension",
                                    lo |-> offset,
                                    hi |-> offset + 4 + Len(ExtData(data, offset, n)),
                                    blo |-> offset,
                                    bhi |-> ext_end]
                       /\ Goto(Dispatch(t, n))
       ELSE Goto("return")
            /\ UNCHANGED <<extensions, ext_type, ext_len, ext_data, reads>>

\* The try block of the SNI branch: the exception it raises ("" for none)
\* and the host name it decodes.
SniBody(ed) ==
    IF ~CanUnpackH(Slice(ed, 0, 2)) THEN [exc |-> "struct.error", sni |-> <<>>]
    ELSE IF ~InRange(ed, 2) THEN [exc |-> "IndexError", sni |-> <<>>]
    ELSE IF ~CanUnpackH(Slice(ed, 3, 5)) THEN [exc |-> "struct.error", sni |-> <<>>]
    ELSE LET sni_len == UnpackH(Slice(ed, 3, 5))
             name == Utf8Decode(Slice(ed, 5, 5 + sni_len))
         IN  IF ~name.ok THEN [exc |-> "UnicodeDecodeError", sni |-> <<>>]
             ELSE [exc |-> "", sni |-> name.str]

\* ext_type == EXT_SNI and ext_len > 0
Sni ==
    /\ pc = "sni"
    /\ malformed' = malformed \cup Violations
    /\ UNCHANGED <<engine, threads, others, input, stderr, offset, cipher_suites_len, i, client_version,
                   cipher_suites, extensions, alpn_protocols, supported_versions,
                   signature_algorithms, extLocals, reads>>
    /\ LET r == SniBody(ext_data)
       IN  IF r.exc # ""
             THEN InnerRaise(r.exc) /\ UNCHANGED sni
           ELSE Goto("ext_next") /\ sni' = r.sni

\* ext_type == EXT_ALPN and ext_len > 0: alpn_list_len, alpn_offset = 2
AlpnLen ==
    /\ pc = "alpn_len"
    /\ malformed' = malformed \cup Violations
    /\ UNCHANGED <<engine, threads, others, input, stderr, offset, cipher_suites_len, i, fields, ext_end,
                   ext_type, ext_len, ext_data, reads>>
    /\ IF ~CanUnpackH(Slice(ext_data, 0, 2))
         THEN InnerRaise("struct.error") /\ UNCHANGED <<list_len, alpn_offset>>
       ELSE /\ Goto("alpn_loop")
            /\ list_len' = UnpackH(Slice(ext_data, 0, 2))
            /\ alpn_offset' = 2

\* while alpn_offset < 2 + alpn_list_len: one protocol name is read.
AlpnLoop ==
    /\ pc = "alpn_loop"
    /\ malformed' = malformed \cup Violations
    /\ UNCHANGED <<engine, threads, others, input, stderr, offset, cipher_suites_len, i, client_version,
                   cipher_suites, extensions, sni, supported_versions,
                   signature_algorithms, ext_end, ext_type, ext_len, ext_data,
                   list_len>>
    /\ IF alpn_offset < 2 + list_len
         THEN IF ~InRange(ext_data, alpn_offset)
                THEN InnerRaise("IndexError")
                     /\ UNCHANGED <<alpn_protocols, alpn_offset, reads>>
              ELSE LET proto_len == At(ext_data, alpn_offset)
                       raw == Slice(ext_data, alpn_offset + 1,
                                    alpn_offset + 1 + proto_len)
                       proto == Utf8Decode(raw)
                   IN  /\ reads' = [field |-> "alpn",
                                    lo |-> offset + 4 + alpn_offset,
                                    hi |-> offset + 4 + alpn_offset + 1 + Len(raw),
                                    blo |-> offset + 4 + 2,
                                    bhi |-> offset + 4 + 2 + list_len]
                       /\ IF ~proto.ok
                            THEN InnerRaise("UnicodeDecodeError")
                                 /\ UNCHANGED <<alpn_protocols, alpn_offset>>
                          ELSE /\ Goto("alpn_loop")
                               /\ alpn_protocols' = Append(alpn_protocols, proto.str)
                               /\ alpn_offset' = alpn_offset + 1 + proto_len
       ELSE Goto("ext_next") /\ UNCHANGED <<alpn_protocols, alpn_offset, reads>>

\* A faulty variant: the index counts entries, one more for each pass.
RangeStepByEntry(k) == k + 1

\* range(0, ver_list_len, 2), range(0, sig_list_len, 2): the index of the
\* pass after the one with index k.
RangeStep(k) == k + 2

\* ext_type == EXT_SUPPORTED_VERSIONS and ext_len > 0: ver_list_len
VerListLen ==
    /\ pc = "ver_list_len"
    /\ malformed' = malformed \cup Violations
    /\ UNCHANGED <<engine, threads, others, input, stderr, offset, cipher_suites_len, fields, ext_end,
                   ext_type, ext_len, ext_data, alpn_offset, reads>>
    /\ IF ~InRange(ext_data, 0)
         THEN InnerRaise("IndexError") /\ UNCHANGED <<list_len, i>>
       ELSE /\ Goto("ver_loop")
            /\ list_len' = At(ext_data, 0)
            /\ i' = 0

\* for i in range(0, ver_list_len, 2): one version code is read.
VerLoop ==
    /\ pc = "ver_loop"
    /\ malformed' = malformed \cup Violations
    /\ UNCHANGED <<engine, threads, others, input, stderr, offset, cipher_suites_len, client_version,
                   cipher_suites, extensions, sni, alpn_protocols,
                   signature_algorithms, extLocals>>
    /\ IF i < list_len
         THEN LET b == Slice(ext_data, 1 + i, 3 + i)
              IN  /\ reads' = [field |-> "supported_versions",
                               lo |-> offset + 4 + 1 + i,
                               hi |-> offset + 4 + 1 + i + Len(b),
                               blo |-> offset + 4 + 1,
                               bhi |-> offset + 4 + 1 + list_len]
                  /\ IF ~CanUnpackH(b)
                       THEN InnerRaise("struct.error")
                            /\ UNCHANGED <<supported_versions, i>>
                     ELSE /\ Goto("ver_loop")
                          /\ supported_versions' = Append(supported_versions, UnpackH(b))
                          /\ i' = RangeStep(i)
       ELSE Goto("ext_next") /\ UNCHANGED <<supported_versions, i, reads>>

\* ext_type == EXT_SIGNATURE_ALGORITHMS and ext_len > 0: sig_list_len
SigListLen ==
    /\ pc = "sig_list_len"
    /\ malformed' = malformed \cup Violations
    /\ UNCHANGED <<engine, threads, others, input, stderr, offset, cipher_suites_len, fields, ext_end,
                   ext_type, ext_len, ext_data, alpn_offset, reads>>
    /\ IF ~CanUnpackH(Slice(ext_data, 0, 2))
         THEN InnerRaise("struct.error") /\ UNCHANGED <<list_len, i>>
       ELSE /\ Goto("sig_loop")
            /\ list_len' = UnpackH(Slice(ext_data, 0, 2))
            /\ i' = 0

\* for i in range(0, sig_list_len, 2): one algorithm code is read.
SigLoop ==
    /\ pc = "sig_loop"
    /\ malformed' = malformed \cup Violations
    /\ UNCHANGED <<engine, threads, others, input, stderr, offset, cipher_suites_len, client_version,
                   cipher_suites, extensions, sni, alpn_protocols,
                   supported_versions, extLocals>>
    /\ IF i < list_len
         THEN LET b == Slice(ext_data, 2 + i, 4 + i)
              IN  /\ reads' = [field |-> "signature_algorithms",
                               lo |-> offset + 4 + 2 + i,
                               hi |-> offset + 4 + 2 + i + Len(b),
                               blo |-> offset + 4 + 2,
                               bhi |-> offset + 4 + 2 + list_len]
                  /\ IF ~CanUnpackH(b)
                       THEN InnerRaise("struct.error")
                            /\ UNCHANGED <<signature_algorithms, i>>
                     ELSE /\ Goto("sig_loop")
                          /\ signature_algorithms' =
                                 Append(signature_algorithms, UnpackH(b))
                          /\ i' = RangeStep(i)
       ELSE Goto("ext_next") /\ UNCHANGED <<signature_algorithms, i, reads>>

\* A faulty variant: the body of the extension is not skipped.
NextExtensionBodyNotSkipped(off, n) == off + 4

\* A faulty variant: the 4 bytes of type and length are not skipped.
NextExtensionHeaderNotSkipped(off, n) == off + n

\* offset += 4 + ext_len
NextExtension(off, n) == off + 4 + n

\* The body of the extension is skipped: on to the next extension.
ExtNext ==
    /\ pc = "ext_next"
    /\ malformed' = malformed \cup Violations
    /\ Goto("ext_loop")
    /\ offset' = NextExtension(offset, ext_len)
    /\ UNCHANGED <<engine, threads, others, input, stderr, cipher_suites_len, i, fields, extLocals, reads>>

\* The value the function returns when it reaches its last statement.
ClientHello(v, cs, es, s, ap, sv, sa) ==
    [version |-> v, cipher_suites |-> cs, extensions |-> es, sni |-> s,
     alpn_protocols |-> ap, supported_versions |-> sv,
     signature_algorithms |-> sa]

\* return ClientHello(...)
ReturnHello ==
    /\ pc = "return"
    /\ malformed' = malformed \cup Violations
    /\ Return(ClientHello(client_version, cipher_suites, extensions, sni,
                          alpn_protocols, supported_versions,
                          signature_algorithms))
    /\ UNCHANGED <<engine, threads, others, input, stderr, offset, cipher_suites_len, i, fields,
                   extLocals, reads>>

\* except Exception as e: the error is printed and None is returned.  An
\* exception the clause does not catch leaves the call.
OuterExcept ==
    /\ pc = "except"
    /\ malformed' = malformed \cup Violations
    /\ IF OuterCatches(exc)
         THEN Return(None) /\ stderr' = Append(stderr, exc)
       ELSE /\ pc' = "escaped"
            /\ UNCHANGED <<exc, result, stderr>>
    /\ UNCHANGED <<engine, threads, others, input, offset, cipher_suites_len, i, fields, extLocals, reads>>

Next ==
    \/ Tamper
    \/ Truncate
    \/ Short
    \/ Call
    \/ RecordHeader
    \/ HandshakeHeader
    \/ ClientVersion
    \/ SessionId
    \/ CipherSuitesLen
    \/ CipherLoop
    \/ Compression
    \/ ExtensionsBlock
    \/ ExtLoop
    \/ Sni
    \/ AlpnLen
    \/ AlpnLoop
    \/ VerListLen
    \/ VerLoop
    \/ SigListLen
    \/ SigLoop
    \/ ExtNext
    \/ ReturnHello
    \/ OuterExcept

Spec == Init /\ [][Next]_vars

-----------------------------------------------------------------------------
(* The claims about parse_client_hello_raw. *)

IsHello(r) ==
    DOMAIN r = {"version", "cipher_suites", "extensions", "sni",
                "alpn_protocols", "supported_versions", "signature_algorithms"}

\* The declared lengths of claim C2.
LengthFields ==
    {"session_id", "cipher_suites", "compression", "extensions_block",
     "extension", "sni_name", "alpn_list", "alpn_name", "supported_versions",
     "signature_algorithms"}

\* C1: for every buffer the call comes back with a ClientHello or with None;
\* no exception leaves it, and no read goes past the end of the buffer.
C1_NoExceptionEscapes ==
    /\ pc # "escaped"
    /\ pc = "done" => (result = None \/ IsHello(result))
    /\ reads.hi <= Len(data)

\* An exception was raised on a tampered record and came back as None.
C1_Witness ==
    /\ pc = "done"
    /\ tampered = 1
    /\ result = None
    /\ stderr = <<"struct.error">>

\* C2: whenever a declared length exceeds the bytes that remain, the call
\* fails; it returns no ClientHello.
C2_OverrunFails ==
    (pc = "done" /\ malformed \cap LengthFields # {}) => result = None

\* C3: every byte read for a variable-length field lies inside the declared
\* extent of that field and inside the buffer.
C3_ReadsInsideField ==
    reads.field # "none" =>
        /\ reads.blo <= reads.lo
        /\ reads.hi <= reads.bhi
        /\ reads.hi <= Len(data)

C5_RecordLengthChecked ==
    (pc = "done" /\ "record_length" \in malformed) => result = None

\* C6: a buffer whose content type is not "handshake", or whose handshake
\* type is not "ClientHello", is refused whatever follows.
C6_TypeMismatchRejected ==
    pc = "done" =>
        /\ (Len(data) >= 1 /\ data[1] # CT_HANDSHAKE) => result = None
        /\ (Len(data) >= 6 /\ data[6] # HT_CLIENT_HELLO) => result = None

\* A whole record with the handshake type changed was refused.
C6_Witness ==
    /\ pc = "done"
    /\ tampered = 1
    /\ data[1] = CT_HANDSHAKE
    /\ data[6] # HT_CLIENT_HELLO
    /\ result = None

WireExtTypes(w) == [k \in 1..Len(w.exts) |-> w.exts[k].type]

\* C8: for a well-formed record the ClientHello holds the version of the
\* body, the cipher codes and the extension type codes as they are on the
\* wire: same order, duplicates and GREASE values kept; the bodies of the
\* extensions that are not decoded are skipped by their length.
C8_WireOrderKept ==
    (pc = "done" /\ tampered = 0 /\ ~truncated) =>
        /\ IsHello(result)
        /\ result.version = wire.version
        /\ result.cipher_suites = wire.ciphers
        /\ result.extensions = WireExtTypes(wire)

\* A record with a GREASE cipher, a repeated cipher, a GREASE extension and
\* an extension whose body is skipped was parsed.
C8_Witness ==
    /\ pc = "done"
    /\ tampered = 0
    /\ ~truncated
    /\ IsHello(result)
    /\ result.cipher_suites = <<\h0a0a, \hc02b, \h1301, \hc02b>>
    /\ result.extensions = <<\h1a1a, EXT_ALPN, \h0033, EXT_SNI>>


(***************************************************************************)
(* hashlib.sha256, on 32-bit words kept as pairs <<high 16, low 16>>. *)
(***************************************************************************)
\* SHA-256 (FIPS 180-4), which hashlib.sha256 computes.  A 32-bit word is
\* the pair <<high 16 bits, low 16 bits>>.
Sha256K ==
    << <<\h428a, \h2f98>>, <<\h7137, \h4491>>, <<\hb5c0, \hfbcf>>, <<\he9b5, \hdba5>>,
       <<\h3956, \hc25b>>, <<\h59f1, \h11f1>>, <<\h923f, \h82a4>>, <<\hab1c, \h5ed5>>,
       <<\hd807, \haa98>>, <<\h1283, \h5b01>>, <<\h2431, \h85be>>, <<\h550c, \h7dc3>>,
       <<\h72be, \h5d74>>, <<\h80de, \hb1fe>>, <<\h9bdc, \h06a7>>, <<\hc19b, \hf174>>,
       <<\he49b, \h69c1>>, <<\hefbe, \h4786>>, <<\h0fc1, \h9dc6>>, <<\h240c, \ha1cc>>,
       <<\h2de9, \h2c6f>>, <<\h4a74, \h84aa>>, <<\h5cb0, \ha9dc>>, <<\h76f9, \h88da>>,
       <<\h983e, \h5152>>, <<\ha831, \hc66d>>, <<\hb003, \h27c8>>, <<\hbf59, \h7fc7>>,
       <<\hc6e0, \h0bf3>>, <<\hd5a7, \h9147>>, <<\h06ca, \h6351>>, <<\h1429, \h2967>>,
       <<\h27b7, \h0a85>>, <<\h2e1b, \h2138>>, <<\h4d2c, \h6dfc>>, <<\h5338, \h0d13>>,
       <<\h650a, \h7354>>, <<\h766a, \h0abb>>, <<\h81c2, \hc92e>>, <<\h9272, \h2c85>>,
       <<\ha2bf, \he8a1>>, <<\ha81a, \h664b>>, <<\hc24b, \h8b70>>, <<\hc76c, \h51a3>>,
       <<\hd192, \he819>>, <<\hd699, \h0624>>, <<\hf40e, \h3585>>, <<\h106a, \ha070>>,
       <<\h19a4, \hc116>>, <<\h1e37, \h6c08>>, <<\h2748, \h774c>>, <<\h34b0, \hbcb5>>,
       <<\h391c, \h0cb3>>, <<\h4ed8, \haa4a>>, <<\h5b9c, \hca4f>>, <<\h682e, \h6ff3>>,
       <<\h748f, \h82ee>>, <<\h78a5, \h636f>>, <<\h84c8, \h7814>>, <<\h8cc7, \h0208>>,
       <<\h90be, \hfffa>>, <<\ha450, \h6ceb>>, <<\hbef9, \ha3f7>>, <<\hc671, \h78f2>> >>

Sha256H0 ==
    << <<\h6a09, \he667>>, <<\hbb67, \hae85>>, <<\h3c6e, \hf372>>, <<\ha54f, \hf53a>>,
       <<\h510e, \h527f>>, <<\h9b05, \h688c>>, <<\h1f83, \hd9ab>>, <<\h5be0, \hcd19>> >>

\* The bits of x that y has too, x and y below 2^n.
RECURSIVE BitAnd(_, _, _)
BitAnd(x, y, n) ==
    IF n = 0 THEN 0
    ELSE 2 * BitAnd(x \div 2, y \div 2, n - 1) + (x % 2) * (y % 2)

AndByte == [x \in 0..255 |-> [y \in 0..255 |-> BitAnd(x, y, 8)]]

And16(x, y) ==
    AndByte[x \div 256][y \div 256] * 256 + AndByte[x % 256][y % 256]

\* x xor y = x + y - 2 (x and y)
Xor16(x, y) == x + y - 2 * And16(x, y)

WAnd(a, b) == <<And16(a[1], b[1]), And16(a[2], b[2])>>
WXor(a, b) == <<Xor16(a[1], b[1]), Xor16(a[2], b[2])>>
WNot(a) == <<65535 - a[1], 65535 - a[2]>>
WAdd(a, b) ==
    LET lo == a[2] + b[2]
    IN  <<(a[1] + b[1] + lo \div 65536) % 65536, lo % 65536>>

\* rotate right and shift right by n, 0 < n < 32
Rotr(a, n) ==
    IF n >= 16
    THEN LET m == n - 16
         IN  <<a[2] \div 2^m + (a[1] % 2^m) * 2^(16 - m),
               a[1] \div 2^m + (a[2] % 2^m) * 2^(16 - m)>>
    ELSE <<a[1] \div 2^n + (a[2] % 2^n) * 2^(16 - n),
           a[2] \div 2^n + (a[1] % 2^n) * 2^(16 - n)>>

Shr(a, n) ==
    IF n >= 16 THEN <<0, a[1] \div 2^(n - 16)>>
    ELSE <<a[1] \div 2^n, a[2] \div 2^n + (a[1] % 2^n) * 2^(16 - n)>>

\* The message, then 0x80, zeros and the length in bits as 8 bytes, to a
\* multiple of 64 bytes.
Sha256Pad(msg) ==
    LET n == Len(msg)
        zeros == (119 - (n % 64)) % 64
        bits == 8 * n
    IN  msg \o <<128>> \o [k \in 1..zeros |-> 0]
        \o <<0, 0, 0, 0, 0, (bits \div 65536) % 256, (bits \div 256) % 256,
             bits % 256>>

\* The 16 words of block b (from 0) of the padded message.
Sha256Block(p, b) ==
    [t \in 1..16 |->
        LET o == 64 * b + 4 * (t - 1)
        IN  <<p[o + 1] * 256 + p[o + 2], p[o + 3] * 256 + p[o + 4]>>]

\* The message schedule, extended from 16 words to 64.
RECURSIVE Sha256Schedule(_)
Sha256Schedule(ws) ==
    IF Len(ws) = 64 THEN ws
    ELSE LET t == Len(ws) + 1
             SmallSigma0(x) == WXor(WXor(Rotr(x, 7), Rotr(x, 18)), Shr(x, 3))
             SmallSigma1(x) == WXor(WXor(Rotr(x, 17), Rotr(x, 19)), Shr(x, 10))
         IN  Sha256Schedule(Append(ws,
                 WAdd(WAdd(SmallSigma1(ws[t - 2]), ws[t - 7]),
                      WAdd(SmallSigma0(ws[t - 15]), ws[t - 16]))))

\* One round on the working variables v = <<a, b, c, d, e, f, g, h>> with
\* schedule word w and round constant k.
Sha256Round(v, w, k) ==
    LET BigSigma0(x) == WXor(WXor(Rotr(x, 2), Rotr(x, 13)), Rotr(x, 22))
        BigSigma1(x) == WXor(WXor(Rotr(x, 6), Rotr(x, 11)), Rotr(x, 25))
        ShaCh(x, y, z) == WXor(WAnd(x, y), WAnd(WNot(x), z))
        ShaMaj(x, y, z) == WXor(WXor(WAnd(x, y), WAnd(x, z)), WAnd(y, z))
        t1 == WAdd(WAdd(WAdd(v[8], BigSigma1(v[5])),
                        WAdd(ShaCh(v[5], v[6], v[7]), k)), w)
        t2 == WAdd(BigSigma0(v[1]), ShaMaj(v[1], v[2], v[3]))
    IN  <<WAdd(t1, t2), v[1], v[2], v[3], WAdd(v[4], t1), v[5], v[6], v[7]>>

\* The working variables after each of the 64 rounds, vs[1] being those
\* before the first.
RECURSIVE Sha256Rounds(_, _)
Sha256Rounds(vs, ws) ==
    IF Len(vs) = 65 THEN vs[65]
    ELSE LET t == Len(vs)
         IN  Sha256Rounds(Append(vs, Sha256Round(vs[t], ws[t], Sha256K[t])), ws)

\* The hash value after blocks b.. of the padded message p.
RECURSIVE Sha256Blocks(_, _, _)
Sha256Blocks(h, p, b) ==
    IF 64 * b >= Len(p) THEN h
    ELSE LET v == Sha256Rounds(<<h>>, Sha256Schedule(Sha256Block(p, b)))
         IN  Sha256Blocks([k \in 1..8 |-> WAdd(h[k], v[k])], p, b + 1)

\* One hexadecimal digit as str.format and hexdigest write it: 0-9, a-f.
HexDigit(d) == IF d < 10 THEN 48 + d ELSE 87 + d

Hex16(x) ==
    <<HexDigit(x \div 4096), HexDigit((x \div 256) % 16),
      HexDigit((x \div 16) % 16), HexDigit(x % 16)>>

\* hashlib.sha256(data).hexdigest()[:12]
Sha256Hex12(msg) ==
    LET h == Sha256Blocks(Sha256H0, Sha256Pad(msg), 0)
    IN  Hex16(h[1][1]) \o Hex16(h[1][2]) \o Hex16(h[2][1])

(***************************************************************************)
(* Python's string primitives used by the fingerprint engine. *)
(***************************************************************************)
\* str.isalnum() of one character, for the code points below 256.
IsAlnum(c) ==
    \/ c \in 48..57
    \/ c \in 65..90
    \/ c \in 97..122
    \/ c \in {170, 178, 179, 181, 185, 186, 188, 189, 190}
    \/ c \in 192..214
    \/ c \in 216..246
    \/ c \in 248..255

\* str.encode(): UTF-8, for the code points below 2048.
RECURSIVE Utf8Encode(_)
Utf8Encode(str) ==
    IF str = <<>> THEN <<>>
    ELSE IF Len(str) = 1
         THEN IF str[1] < 128 THEN str
              ELSE <<192 + (str[1] \div 64), 128 + (str[1] % 64)>>
         ELSE LET half == Len(str) \div 2
              IN  Utf8Encode(SubSeq(str, 1, half))
                      \o Utf8Encode(SubSeq(str, half + 1, Len(str)))

\* The digits of n in the given base, most significant first, as characters.
RECURSIVE Digits(_, _)
Digits(n, base) ==
    IF n < base THEN <<HexDigit(n)>>
    ELSE Append(Digits(n \div base, base), HexDigit(n % base))

\* Left padding with "0" up to the width, as the format codes 0Nd and 0Nx do.
RECURSIVE ZeroPad(_, _)
ZeroPad(str, width) ==
    IF Len(str) >= width THEN str ELSE ZeroPad(<<48>> \o str, width)

\* f"{n:02d}" and f"{n:04x}" of a non-negative int.
Format02d(n) == ZeroPad(Digits(n, 10), 2)
Format04x(n) == ZeroPad(Digits(n, 16), 4)

\* sep.join(strs)
RECURSIVE Join(_, _)
Join(sep, strs) ==
    IF strs = <<>> THEN <<>>
    ELSE IF Len(strs) = 1 THEN strs[1]
    ELSE LET half == Len(strs) \div 2
         IN  Join(sep, SubSeq(strs, 1, half)) \o sep
                 \o Join(sep, SubSeq(strs, half + 1, Len(strs)))

\* A faulty variant: the list is left in the order it has.
Unsorted(s) == s

\* sorted(list) of ints: ascending, duplicates kept.  The entry at a place
\* is the value v with fewer entries below v than the place, and no fewer
\* entries up to v.
Sorted(s) ==
    LET values == {s[k] : k \in 1..Len(s)}
        Below(v) == Cardinality({k \in 1..Len(s) : s[k] < v})
        UpTo(v) == Cardinality({k \in 1..Len(s) : s[k] <= v})
    IN  <<>> \o [place \in 1..Len(s) |->
                    CHOOSE v \in values : Below(v) < place /\ place <= UpTo(v)]

\* max(list) of a non-empty list of ints.
Max(s) == CHOOSE v \in {s[k] : k \in 1..Len(s)} :
              \A k \in 1..Len(s) : s[k] <= v

\* The truth value of an Optional[str] and of a list: None and empty are false.
TruthyStr(str) == str # NoneStr /\ str # <<>>
Truthy(list) == list # <<>>

(***************************************************************************)
(* The fingerprint engine. *)
(***************************************************************************)
\* The default "00" of the version string and of the ALPN code.
Zeros == <<48, 48>>


\* A faulty variant: no code is taken for GREASE.
IsGreaseNever(value) == FALSE

\* A faulty variant: every code whose last hex digit is a.
LowNibbleOnly(value) == value % 16 = 10

\* is_grease(value)
is_grease(value) == value \in GREASE_VALUES

NotGrease(value) == ~is_grease(value)

\* TLS_VERSIONS.get(version, "00")
get_tls_version_string(version) ==
    CASE version = \h0304 -> <<49, 51>>
      [] version = \h0303 -> <<49, 50>>
      [] version = \h0302 -> <<49, 49>>
      [] version = \h0301 -> <<49, 48>>
      [] version = \h0300 -> <<115, 51>>
      [] version = \hfefd -> <<100, 50>>
      [] version = \hfeff -> <<100, 49>>
      [] OTHER -> Zeros

\* A faulty variant: the first and the last character of the first protocol
\* as it was sent.
AlpnCodeUnstripped(names) ==
    IF names = <<>> \/ names[1] = <<>> THEN <<48, 48>>
    ELSE <<names[1][1], names[1][Len(names[1])]>>

\* get_alpn_code(alpn_protocols)
get_alpn_code(names) ==
    IF ~Truthy(names) THEN Zeros
    ELSE LET first_proto == names[1]
             alphanumeric == SelectSeq(first_proto, IsAlnum)
         IN  IF Len(alphanumeric) >= 2
             THEN <<alphanumeric[1], alphanumeric[Len(alphanumeric)]>>
             ELSE IF Len(alphanumeric) = 1
                  THEN <<alphanumeric[1], alphanumeric[1]>>
                  ELSE Zeros

\* compute_hash(data)
compute_hash(str) == Sha256Hex12(Utf8Encode(str))

\* A faulty variant: supported_versions is not looked at.
LegacyVersionOnly(ch) == ch.version

\* The version the version string is taken from.
EffectiveVersion(ch) ==
    IF Truthy(ch.supported_versions)
    THEN LET real_versions == SelectSeq(ch.supported_versions, NotGrease)
         IN  IF real_versions # <<>> THEN Max(real_versions) ELSE ch.version
    ELSE ch.version

SniChar(ch) == IF TruthyStr(ch.sni) THEN <<100>> ELSE <<105>>

\* A faulty variant: the cipher suites as they were sent.
AllCiphers(ch) == ch.cipher_suites

RealCiphers(ch) == SelectSeq(ch.cipher_suites, NotGrease)
\* A faulty variant: the extensions as they were sent.
AllExtensions(ch) == ch.extensions

RealExtensions(ch) == SelectSeq(ch.extensions, NotGrease)

SectionA(ch) ==
    LET protocol == <<116>>
        version_str == get_tls_version_string(EffectiveVersion(ch))
        cipher_count == Min(Len(RealCiphers(ch)), 99)
        ext_count == Min(Len(RealExtensions(ch)), 99)
        alpn_code == get_alpn_code(ch.alpn_protocols)
    IN  protocol \o version_str \o SniChar(ch) \o Format02d(cipher_count)
            \o Format02d(ext_count) \o alpn_code

\* ",".join(f"{c:04x}" for c in codes)
HexList(codes) == Join(<<44>>, [k \in 1..Len(codes) |-> Format04x(codes[k])])

CipherString(ch) == HexList(Sorted(RealCiphers(ch)))

\* A faulty variant: the ALPN code stays.
NotSni(e) == e # EXT_SNI

NotSniNorAlpn(e) == e \notin {EXT_SNI, EXT_ALPN}

ExtString(ch) == HexList(Sorted(SelectSeq(RealExtensions(ch), NotSniNorAlpn)))

\* A faulty variant: the signature algorithms are sorted like the rest.
SigAlgsSorted(ch) == Sorted(ch.signature_algorithms)

\* The signature algorithms as the engine renders them.
SigAlgs(ch) == ch.signature_algorithms

Combined(ch) ==
    IF Truthy(SigAlgs(ch))
    THEN ExtString(ch) \o <<95>> \o HexList(SigAlgs(ch))
    ELSE ExtString(ch)

\* A faulty variant: the three sections with nothing between them.
JoinedWithoutSeparator(section_a, section_b, section_c) ==
    [full |-> section_a \o section_b \o section_c,
     a |-> section_a, b |-> section_b, c |-> section_c]

\* JA4Fingerprint(full, a, b, c)
JA4Fingerprint(section_a, section_b, section_c) ==
    [full |-> section_a \o <<95>> \o section_b \o <<95>> \o section_c,
     a |-> section_a, b |-> section_b, c |-> section_c]

\* A faulty variant: max() is called whatever is left of the list.
VersionsUnguarded(real_versions) == TRUE

\* "if real_versions": max() is called on a list that is not empty.
VersionsGuard(real_versions) == Truthy(real_versions)

\* The exception calculate_ja4 raises, "" for none: max() of an empty list
\* is a ValueError, alpn_protocols[0] of an empty list an IndexError.
Raised(ch) ==
    LET real_versions == SelectSeq(ch.supported_versions, NotGrease)
    IN  IF /\ Truthy(ch.supported_versions)
           /\ VersionsGuard(real_versions)
           /\ real_versions = <<>>
        THEN "ValueError"
        ELSE IF ~(~Truthy(ch.alpn_protocols)) /\ ch.alpn_protocols = <<>>
             THEN "IndexError"
             ELSE ""

\* A faulty variant: cipher_suites.sort() sorts the list of the argument.
SortedInPlace(ch) == [ch EXCEPT !.cipher_suites = Sorted(@)]

\* The argument after the call: no statement of calculate_ja4 assigns to a
\* field of client_hello or changes one of its lists.
ArgumentAfter(ch) == ch

\* The two strings calculate_ja4 hands to compute_hash.
HashedStrings(ch) == [b |-> CipherString(ch), c |-> Combined(ch)]

\* calculate_ja4(client_hello)
calculate_ja4(ch) ==
    JA4Fingerprint(SectionA(ch),
                   compute_hash(CipherString(ch)),
                   compute_hash(Combined(ch)))

(***************************************************************************)
(* The format check of the /analyze endpoint of detection_api.py:           *)
(* re.match(r'^[a-z]\d{2}[di]\d{4}[a-z0-9]{2}_[a-f0-9]{12}_[a-f0-9]{12}$')  *)
(***************************************************************************)
AnalyzeFormatOk(ja4) ==
    LET ReLower(c) == c \in 97..122
        ReDigit(c) == c \in 48..57
        ReLowerOrDigit(c) == ReLower(c) \/ ReDigit(c)
        ReHex(c) == c \in 97..102 \/ ReDigit(c)
    IN  /\ Len(ja4) = 36
        /\ ReLower(ja4[1])
        /\ \A k \in 2..3 : ReDigit(ja4[k])
        /\ ja4[4] \in {100, 105}
        /\ \A k \in 5..8 : ReDigit(ja4[k])
        /\ \A k \in 9..10 : ReLowerOrDigit(ja4[k])
        /\ ja4[11] = 95
        /\ \A k \in 12..23 : ReHex(ja4[k])
        /\ ja4[24] = 95
        /\ \A k \in 25..36 : ReHex(ja4[k])

(***************************************************************************)
(* The ClientHello values the engine is called on. *)
(***************************************************************************)
\* How many calls of calculate_ja4 a behaviour holds.
MaxCalls == 2
\* How many GREASE codes are inserted into a ClientHello.
MaxGrease == 1
\* How many times two entries of a list of a ClientHello change places.
MaxSwaps == 1
\* The length of a list that holds more codes than the counts of Section A
\* can show.
ManyCodes == 100

\* A list argument that was left out: the default None.
NoneList == <<-1>>

\* __post_init__: a list that was left out is the empty list.
PostInit(ch) ==
    [ch EXCEPT !.alpn_protocols = IF @ = NoneList THEN <<>> ELSE @,
               !.supported_versions = IF @ = NoneList THEN <<>> ELSE @,
               !.signature_algorithms = IF @ = NoneList THEN <<>> ELSE @]

\* ClientHello(version=0x0303, cipher_suites=[], extensions=[])
MinimalHello ==
    PostInit([version |-> \h0303, cipher_suites |-> <<>>,
              extensions |-> <<>>, sni |-> NoneStr,
              alpn_protocols |-> NoneList, supported_versions |-> NoneList,
              signature_algorithms |-> NoneList])

Hello(v, cs, es, s, ap, sv, sa) ==
    [version |-> v, cipher_suites |-> cs, extensions |-> es, sni |-> s,
     alpn_protocols |-> ap, supported_versions |-> sv,
     signature_algorithms |-> sa]

\* "example.com", "test.com", "h2", "http/1.1"
ExampleCom == <<101, 120, 97, 109, 112, 108, 101, 46, 99, 111, 109>>
TestCom == <<116, 101, 115, 116, 46, 99, 111, 109>>
H2 == <<104, 50>>
Http11 == <<104, 116, 116, 112, 47, 49, 46, 49>>

\* The three inputs of JA4_TEST_CASES, the first with version 0x0304 as well.
ChromeLike(v) ==
    Hello(v, <<\h1301, \h1302, \h1303, \hc02c, \hc02b, \h0a0a>>,
          <<\h0000, \h0010, \h002b, \h000d, \h0033, \h1a1a>>,
          ExampleCom, <<H2, Http11>>, <<>>, <<\h0403, \h0503, \h0603>>)

NoSniHello ==
    Hello(\h0303, <<\h1301, \h1302>>, <<\h002b>>, NoneStr, <<>>, <<>>, <<>>)

GreaseFiltering ==
    Hello(\h0304, <<\h0a0a, \h1301, \h2a2a, \h1302, \h3a3a>>,
          <<\h1a1a, \h0000, \h2a2a>>, TestCom, <<H2>>, <<>>, <<>>)

\* Lists of GREASE codes only, in a ClientHello whose other fields are set.
GreaseOnly ==
    [ChromeLike(\h0303) EXCEPT !.cipher_suites = <<\h0a0a, \h1a1a>>,
                               !.extensions = <<\h2a2a>>]

\* ManyCodes times the same cipher code, the same extension code.
ManyCiphers ==
    [NoSniHello EXCEPT !.cipher_suites = [k \in 1..ManyCodes |-> \h1301]]
ManyExtensions ==
    [NoSniHello EXCEPT !.extensions = [k \in 1..ManyCodes |-> \h0033]]

\* The ClientHello values: the inputs of JA4_TEST_CASES, and NoSniHello with
\* one field varied.  The ALPN names are "h2", "http/1.1", "H2", e-acute,
\* "/", "", "x-" and superscript two followed by "h".
Hellos ==
    LET VersionChoices ==
            {\h0304, \h0302, \h0301, \h0300, \hfefd, \hfeff, \h0a0a, 0}
        CodeListChoices ==
            { <<>>, <<\h0a0a>>, <<\hc02b>>, <<\hc02b, \h1301>>,
              <<\h1301, \h1301>>, <<\hfafa, \h0a0a>>,
              <<\h0000, \h0033, \h0010>> }
        SniChoices == { <<>>, ExampleCom }
        AlpnChoices ==
            { <<H2>>, <<Http11, H2>>, << <<72, 50>> >>, << <<233>> >>,
              << <<47>> >>, << <<>> >>, << <<120, 45>> >>,
              << <<178, 104>> >> }
        VersionListChoices ==
            { <<\h0a0a>>, <<\h0303, \h0304>>, <<\h0304, \h0303>>,
              <<\h0a0a, \h0300>>, <<\hfeff>>, <<\hfefd, \h0304>> }
        SigAlgChoices ==
            { <<\h0403>>, <<\h0403, \h0804>>, <<\h0804, \h0403>>,
              <<\h0a0a, \h0403>> }
    IN
    {ChromeLike(\h0303), ChromeLike(\h0304), NoSniHello, GreaseFiltering,
     MinimalHello,
     GreaseOnly, [GreaseOnly EXCEPT !.signature_algorithms = <<>>],
     ManyCiphers, ManyExtensions}
    \cup {[NoSniHello EXCEPT !.version = v] : v \in VersionChoices}
    \cup {[NoSniHello EXCEPT !.cipher_suites = cs] : cs \in CodeListChoices}
    \cup {[NoSniHello EXCEPT !.extensions = es] : es \in CodeListChoices}
    \cup {[NoSniHello EXCEPT !.sni = s] : s \in SniChoices}
    \cup {[NoSniHello EXCEPT !.alpn_protocols = ap] : ap \in AlpnChoices}
    \cup {[NoSniHello EXCEPT !.supported_versions = sv] :
              sv \in VersionListChoices}
    \cup {[NoSniHello EXCEPT !.signature_algorithms = sa] :
              sa \in SigAlgChoices}

\* The fields GREASE codes occur in, and the codes inserted.
GreaseFields ==
    {"cipher_suites", "extensions", "supported_versions",
     "signature_algorithms"}
GreaseCodes == {\h0a0a, \hfafa}

InsertAt(s, p, v) == SubSeq(s, 1, p) \o <<v>> \o SubSeq(s, p + 1, Len(s))

EngineInit ==
    /\ data = <<>>
    /\ wire = None
    /\ ParserStart
    /\ client_hello \in Hellos
    /\ inserted = 0
    /\ swapped = 0
    /\ calls = <<>>
    /\ NoThreads
    /\ NoBatch

\* fp = calculate_ja4(client_hello)
CalculateJA4 ==
    /\ client_hello # None
    /\ Len(calls) < MaxCalls
    /\ calls' = Append(calls, [arg |-> client_hello,
                               raised |-> Raised(client_hello),
                               fp |-> IF Raised(client_hello) = ""
                                      THEN calculate_ja4(client_hello)
                                      ELSE None,
                               hashed |-> HashedStrings(client_hello),
                               after |-> ArgumentAfter(client_hello)])
    /\ client_hello' = ArgumentAfter(client_hello)
    /\ UNCHANGED <<inserted, swapped, input, parserLocals, threads, others>>

\* The caller builds the next ClientHello: the last one with one more
\* GREASE code, at the front or at the end of one of its lists.
InsertGrease ==
    /\ calls # <<>>
    /\ Len(calls) < MaxCalls
    /\ inserted < MaxGrease
    /\ swapped = 0
    /\ \E f \in GreaseFields, g \in GreaseCodes :
         \E p \in {0, Len(client_hello[f])} :
            client_hello' =
                [client_hello EXCEPT ![f] = InsertAt(@, p, g)]
    /\ inserted' = inserted + 1
    /\ UNCHANGED <<swapped, calls, input, parserLocals, threads, others>>

\* The lists whose order the claims speak of.
OrderedFields == {"cipher_suites", "extensions", "signature_algorithms"}

SwapAt(s, p, q) == [s EXCEPT ![p] = s[q], ![q] = s[p]]

\* The caller builds the next ClientHello: the last one with two unequal
\* entries of one of its lists in each other's place.
SwapEntries ==
    /\ calls # <<>>
    /\ Len(calls) < MaxCalls
    /\ swapped < MaxSwaps
    /\ inserted = 0
    /\ \E f \in OrderedFields :
         \E p, q \in 1..Len(client_hello[f]) :
            /\ p < q
            /\ client_hello[f][p] # client_hello[f][q]
            /\ client_hello' =
                   [client_hello EXCEPT ![f] = SwapAt(@, p, q)]
    /\ swapped' = swapped + 1
    /\ UNCHANGED <<inserted, calls, input, parserLocals, threads, others>>

EngineNext == CalculateJA4 \/ InsertGrease \/ SwapEntries

EngineSpec == EngineInit /\ [][EngineNext]_vars

(***************************************************************************)
(* is_grease on its own: called once on any code of 16 bits. *)
(***************************************************************************)

\* The largest code is_grease is asked about.
MaxCode == 65535

GreaseInit ==
    /\ \E v \in 0..MaxCode : probe = [NoProbe EXCEPT !.code = v]
    /\ packets = <<>>
    /\ pkt_index = 0
    /\ batch_pc = "idle"
    /\ pkt_ja4 = None
    /\ results = <<>>
    /\ NoThreads
    /\ data = <<>>
    /\ wire = None
    /\ ParserStart
    /\ client_hello = None
    /\ inserted = 0
    /\ swapped = 0
    /\ calls = <<>>

\* answer = is_grease(code)
IsGreaseCall ==
    /\ ~probe.called
    /\ probe' = [probe EXCEPT !.called = TRUE, !.answer = is_grease(probe.code)]
    /\ UNCHANGED <<input, parserLocals, engine, threads, batch>>

GreaseNext == IsGreaseCall

GreaseSpec == GreaseInit /\ [][GreaseNext]_vars

(***************************************************************************)
(* extract_from_pcap: the loop over the packets of a capture.  A packet is  *)
(* what scapy makes of it: whether it has the TLS and TLSClientHello        *)
(* layers, the source address of its IP layer ("" for no IP layer), the     *)
(* values its fields and extensions hold, and the statement, if any, that   *)
(* raises while the packet is processed.                                    *)
(***************************************************************************)

\* How many packets a capture holds at most.
MaxPackets == 3

Packet(layers, src, hello, fault) ==
    [layers |-> layers, src |-> src, hello |-> hello, fault |-> fault]

\* A ClientHello with a host name, ALPN and signature algorithms.
NamedHello ==
    [NoSniHello EXCEPT !.extensions =
                           <<EXT_SUPPORTED_VERSIONS, EXT_SNI, EXT_ALPN,
                             EXT_SIGNATURE_ALGORITHMS>>,
                       !.sni = ExampleCom, !.alpn_protocols = <<H2>>,
                       !.signature_algorithms = <<\h0403>>]

\* The packets of the captures: two that are processed to the end, one of
\* them without IP layer; one that is no ClientHello; one whose fields
\* cannot be read; one whose server name cannot be decoded; one on whose
\* values calculate_ja4 raises; one whose source address cannot be read.
Packets ==
    { Packet(TRUE, "10.0.0.1", NoSniHello, "none"),
      Packet(TRUE, "", NamedHello, "none"),
      Packet(FALSE, "10.0.0.2", None, "none"),
      Packet(TRUE, "10.0.0.3", NoSniHello, "fields"),
      Packet(TRUE, "10.0.0.4", NamedHello, "servername"),
      Packet(TRUE, "10.0.0.5", NoSniHello, "calculate_ja4"),
      Packet(TRUE, "10.0.0.6", NamedHello, "source_ip") }

\* The fingerprints of the ClientHello values of the packets.
Ja4Table ==
    LET hellos == <<NoSniHello, NamedHello, [NamedHello EXCEPT !.sni = NoneStr]>>
        fps == <<>> \o [k \in 1..Len(hellos) |-> calculate_ja4(hellos[k])]
    IN  [h \in {hellos[k] : k \in 1..Len(hellos)} |->
            fps[CHOOSE k \in 1..Len(hellos) : hellos[k] = h]]

Captures == UNION {[1..n -> Packets] : n \in 0..MaxPackets}

BatchInit ==
    /\ packets \in Captures
    /\ pkt_index = 0
    /\ batch_pc = "import"
    /\ pkt_ja4 = None
    /\ results = <<>>
    /\ probe = NoProbe
    /\ NoThreads
    /\ data = <<>>
    /\ wire = None
    /\ ParserStart
    /\ client_hello = None
    /\ inserted = 0
    /\ swapped = 0
    /\ calls = <<>>

\* What the loop of extract_from_pcap leaves alone.
outsideBatch == <<input, control, offset, cipher_suites_len, i, fields,
                  extLocals, reads, malformed, inserted, swapped, calls,
                  threads, probe, packets>>

\* The packet the loop is at.
pkt == packets[pkt_index]

\* try: from scapy.all import ...; except ImportError: print, return [].
\* Then results = [], packets = rdpcap(pcap_path).
ImportScapy ==
    /\ batch_pc = "import"
    /\ \/ batch_pc' = "for" /\ UNCHANGED stderr
       \/ /\ packets = <<>>
          /\ batch_pc' = "returned"
          /\ stderr' = Append(stderr, "ImportError")
    /\ UNCHANGED <<outsideBatch, pkt_index, pkt_ja4, results, client_hello>>

\* for pkt in packets: if pkt.haslayer(TLS) and pkt.haslayer(TLSClientHello)
\* and, after the last packet, return results.
ForPacket ==
    /\ batch_pc = "for"
    /\ IF pkt_index < Len(packets)
         THEN /\ pkt_index' = pkt_index + 1
              /\ batch_pc' = IF packets[pkt_index + 1].layers
                              THEN "build" ELSE "for"
         ELSE /\ batch_pc' = "returned"
              /\ UNCHANGED pkt_index
    /\ UNCHANGED <<outsideBatch, stderr, pkt_ja4, results, client_hello>>

\* client_hello = ClientHello(version=ch.version, ...) with no sni and empty
\* lists.
BuildHello ==
    /\ batch_pc = "build"
    /\ IF pkt.fault = "fields"
         THEN /\ batch_pc' = "except"
              /\ UNCHANGED client_hello
         ELSE /\ batch_pc' = "extensions"
              /\ client_hello' =
                     PostInit([version |-> pkt.hello.version,
                               cipher_suites |-> pkt.hello.cipher_suites,
                               extensions |-> pkt.hello.extensions,
                               sni |-> NoneStr,
                               alpn_protocols |-> <<>>,
                               supported_versions |-> <<>>,
                               signature_algorithms |-> <<>>])
    /\ UNCHANGED <<outsideBatch, stderr, pkt_index, pkt_ja4, results>>

\* for ext in ch.ext: the four extensions are copied, each under its own
\* "except Exception: pass".
ParseExtensions ==
    /\ batch_pc = "extensions"
    /\ batch_pc' = "calculate"
    /\ client_hello' =
           [client_hello EXCEPT
               !.sni = IF pkt.fault = "servername" THEN @ ELSE pkt.hello.sni,
               !.alpn_protocols = pkt.hello.alpn_protocols,
               !.supported_versions = pkt.hello.supported_versions,
               !.signature_algorithms = pkt.hello.signature_algorithms]
    /\ UNCHANGED <<outsideBatch, stderr, pkt_index, pkt_ja4, results>>

\* ja4 = calculate_ja4(client_hello)
Fingerprint ==
    /\ batch_pc = "calculate"
    /\ IF pkt.fault = "calculate_ja4"
         THEN /\ batch_pc' = "except"
              /\ UNCHANGED pkt_ja4
         ELSE /\ batch_pc' = "append"
              /\ pkt_ja4' = Ja4Table[client_hello]
    /\ UNCHANGED <<outsideBatch, stderr, pkt_index, results, client_hello>>

\* source_ip = pkt[IP].src if pkt.haslayer(IP) else "unknown"
\* results.append((source_ip, ja4))
AppendResult ==
    /\ batch_pc = "append"
    /\ IF pkt.fault = "source_ip"
         THEN /\ batch_pc' = "except"
              /\ UNCHANGED results
         ELSE /\ batch_pc' = "for"
              /\ results' =
                     Append(results,
                            <<IF pkt.src = "" THEN "unknown" ELSE pkt.src,
                              pkt_ja4>>)
    /\ UNCHANGED <<outsideBatch, stderr, pkt_index, pkt_ja4, client_hello>>

\* A faulty variant: the try statement is around the loop, not inside it.
AfterLoop == "returned"

\* Where the except clause of the packet leads: to the next packet.
AfterPacketFailure == "for"

\* except Exception as e: print(f"Error processing packet: {e}")
PacketExcept ==
    /\ batch_pc = "except"
    /\ stderr' = Append(stderr, "Error processing packet")
    /\ batch_pc' = AfterPacketFailure
    /\ UNCHANGED <<outsideBatch, pkt_index, pkt_ja4, results, client_hello>>

BatchNext ==
    \/ ImportScapy
    \/ ForPacket
    \/ BuildHello
    \/ ParseExtensions
    \/ Fingerprint
    \/ AppendResult
    \/ PacketExcept

BatchSpec == BatchInit /\ [][BatchNext]_vars

(***************************************************************************)
(* Calls in several threads.  Every variable of parse_client_hello_raw and *)
(* of calculate_ja4 is a local of the call or a field of the object the    *)
(* call builds, so a thread that loses the processor keeps them in its     *)
(* frame; sys.stderr is the one object the calls of all threads write to.  *)
(* The calls first run one after another, then again from the same         *)
(* arguments with the processor changing hands between any two steps.      *)
(***************************************************************************)

\* How many threads make a call.
NumThreads == 2

Threads == 1..NumThreads

\* The local variables of the running call.
Frame ==
    [data |-> data,
     tampered |-> tampered,
     truncated |-> truncated,
     wire |-> wire,
     pc |-> pc,
     exc |-> exc,
     result |-> result,
     offset |-> offset,
     client_version |-> client_version,
     cipher_suites_len |-> cipher_suites_len,
     i |-> i,
     cipher_suites |-> cipher_suites,
     extensions |-> extensions,
     sni |-> sni,
     alpn_protocols |-> alpn_protocols,
     supported_versions |-> supported_versions,
     signature_algorithms |-> signature_algorithms,
     ext_end |-> ext_end,
     ext_type |-> ext_type,
     ext_len |-> ext_len,
     ext_data |-> ext_data,
     alpn_offset |-> alpn_offset,
     list_len |-> list_len,
     reads |-> reads,
     malformed |-> malformed,
     client_hello |-> client_hello,
     calls |-> calls]

\* A faulty variant: cipher_suites is one list of the module, not a local of
\* the call.
SharedCipherSuites(f) == cipher_suites

\* cipher_suites = []: a list of the call.
OwnCipherSuites(f) == f.cipher_suites

\* The thread goes on where it was.
Resume(f) ==
    /\ data' = f.data
    /\ tampered' = f.tampered
    /\ truncated' = f.truncated
    /\ wire' = f.wire
    /\ pc' = f.pc
    /\ exc' = f.exc
    /\ result' = f.result
    /\ offset' = f.offset
    /\ client_version' = f.client_version
    /\ cipher_suites_len' = f.cipher_suites_len
    /\ i' = f.i
    /\ cipher_suites' = OwnCipherSuites(f)
    /\ extensions' = f.extensions
    /\ sni' = f.sni
    /\ alpn_protocols' = f.alpn_protocols
    /\ supported_versions' = f.supported_versions
    /\ signature_algorithms' = f.signature_algorithms
    /\ ext_end' = f.ext_end
    /\ ext_type' = f.ext_type
    /\ ext_len' = f.ext_len
    /\ ext_data' = f.ext_data
    /\ alpn_offset' = f.alpn_offset
    /\ list_len' = f.list_len
    /\ reads' = f.reads
    /\ malformed' = f.malformed
    /\ client_hello' = f.client_hello
    /\ calls' = f.calls

\* The frame of a call that has not begun: parse_client_hello_raw(data) when
\* hello is None, calculate_ja4(hello) otherwise.
StartFrame(buf, w, tm, tr, hello) ==
    [data |-> buf, tampered |-> tm, truncated |-> tr, wire |-> w,
     pc |-> "input", exc |-> "", result |-> [pending |-> TRUE], offset |-> 0,
     client_version |-> 0, cipher_suites_len |-> 0, i |-> 0,
     cipher_suites |-> <<>>, extensions |-> <<>>, sni |-> NoneStr,
     alpn_protocols |-> <<>>, supported_versions |-> <<>>,
     signature_algorithms |-> <<>>, ext_end |-> 0, ext_type |-> 0,
     ext_len |-> 0, ext_data |-> <<>>, alpn_offset |-> 0, list_len |-> 0,
     reads |-> NoRead, malformed |-> {}, client_hello |-> hello,
     calls |-> <<>>]

\* No call is running.
Idle == StartFrame(<<>>, None, 0, FALSE, None)

\* The frame of the call at its start.
Restarted(f) ==
    StartFrame(f.data, f.wire, f.tampered, f.truncated, f.client_hello)

\* The records the packets of the threads are made from: four cipher suites
\* and four extensions, the first of them of the type given.
ThreadWire(first) ==
    CHOOSE w \in WireHellos :
        /\ Len(w.ciphers) = 4
        /\ Len(w.exts) = 4
        /\ w.exts[1].type = first

\* The calls a thread may make: the parser on the record with GREASE, ALPN,
\* key share and SNI extensions, on the record with supported versions and
\* signature algorithms, on the first record cut inside its cipher suites,
\* and on the first record with another content type; the engine on the
\* ClientHello of the "No SNI" test case.
Jobs ==
    LET w1 == ThreadWire(\h1a1a)
        w2 == ThreadWire(EXT_SUPPORTED_VERSIONS)
    IN  << StartFrame(TLSRecord(w1), w1, 0, FALSE, None),
           StartFrame(TLSRecord(w2), w2, 0, FALSE, None),
           StartFrame(SubSeq(TLSRecord(w1), 1, 50), w1, 0, TRUE, None),
           StartFrame([TLSRecord(w1) EXCEPT ![1] = 255], w1, 1, FALSE, None),
           StartFrame(<<>>, None, 0, FALSE, NoSniHello) >>

\* The threads are alike: which thread makes which call does not matter.
JobChoices ==
    {c \in [Threads -> 1..Len(Jobs)] :
        \A t \in Threads : t > 1 => c[t - 1] <= c[t]}

ThreadsInit ==
    /\ \E c \in JobChoices : frames = [t \in Threads |-> Jobs[c[t]]]
    /\ current = 0
    /\ alone = NotConcurrent
    /\ preempted = {}
    /\ NoBatch
    /\ data = <<>>
    /\ wire = None
    /\ ParserStart
    /\ client_hello = None
    /\ inserted = 0
    /\ swapped = 0
    /\ calls = <<>>

Running == [running |-> TRUE]

FrameOf(t) == IF t = current THEN Frame ELSE frames[t]

\* The call of the frame has returned, or an exception has left it.
Finished(f) ==
    IF f.client_hello = None
    THEN f.pc = "escaped" \/ (f.pc = "done" /\ f.result # [pending |-> TRUE])
    ELSE f.calls # <<>>

\* What the call of the frame gave its caller.
Outcome(f) ==
    IF f.client_hello = None
    THEN [escaped |-> f.pc = "escaped", value |-> f.result]
    ELSE [escaped |-> FALSE, value |-> f.calls[1].fp]

\* The processor goes to thread t.  While the calls run one after another
\* that happens when the running call is over, in the order of the threads.
Switch ==
    \E t \in Threads \ {current} :
        /\ frames[t] # Running
        /\ ~Finished(frames[t])
        /\ IF alone.concurrent
             THEN TRUE
             ELSE /\ t = current + 1
                  /\ current # 0 => Finished(Frame)
        /\ current' = t
        /\ frames' = IF current = 0
                        THEN [frames EXCEPT ![t] = Running]
                        ELSE [frames EXCEPT ![current] = Frame, ![t] = Running]
        /\ preempted' = IF current # 0 /\ ~Finished(Frame)
                           /\ Frame # Restarted(Frame)
                        THEN preempted \cup {current}
                        ELSE preempted
        /\ Resume(frames[t])
        /\ UNCHANGED <<stderr, inserted, swapped, alone, others>>

\* The calls have run one after another: they are made again, from the same
\* arguments, in threads that run at the same time.
RunConcurrently ==
    /\ ~alone.concurrent
    /\ current = NumThreads
    /\ Finished(Frame)
    /\ alone' = [concurrent |-> TRUE,
                 outcomes |-> [t \in Threads |-> Outcome(FrameOf(t))],
                 printed |-> stderr]
    /\ frames' = [t \in Threads |-> Restarted(FrameOf(t))]
    /\ current' = 0
    /\ stderr' = <<>>
    /\ Resume(Idle)
    /\ UNCHANGED <<inserted, swapped, preempted, others>>

\* The running thread is inside parse_client_hello_raw.
InParser == current # 0 /\ client_hello = None

\* The running thread is about to call calculate_ja4.
InEngine == current # 0 /\ client_hello # None

\* The running thread takes a step of its call, or the processor goes to
\* another thread.
ThreadsNext ==
    \/ InParser /\ Call
    \/ InParser /\ RecordHeader
    \/ InParser /\ HandshakeHeader
    \/ InParser /\ ClientVersion
    \/ InParser /\ SessionId
    \/ InParser /\ CipherSuitesLen
    \/ InParser /\ CipherLoop
    \/ InParser /\ Compression
    \/ InParser /\ ExtensionsBlock
    \/ InParser /\ ExtLoop
    \/ InParser /\ Sni
    \/ InParser /\ AlpnLen
    \/ InParser /\ AlpnLoop
    \/ InParser /\ VerListLen
    \/ InParser /\ VerLoop
    \/ InParser /\ SigListLen
    \/ InParser /\ SigLoop
    \/ InParser /\ ExtNext
    \/ InParser /\ ReturnHello
    \/ InParser /\ OuterExcept
    \/ InEngine /\ CalculateJA4
    \/ Switch
    \/ RunConcurrently

ThreadsSpec == ThreadsInit /\ [][ThreadsNext]_vars

(***************************************************************************)
(* The claims about calculate_ja4. *)
(***************************************************************************)
RECURSIVE WithoutGrease(_)
WithoutGrease(s) ==
    IF s = <<>> THEN <<>>
    ELSE IF Head(s) \in GREASE_VALUES THEN WithoutGrease(Tail(s))
    ELSE <<Head(s)>> \o WithoutGrease(Tail(s))

\* Two ClientHello values that differ by GREASE codes only.
SameButGrease(c1, c2) ==
    /\ c1.version = c2.version
    /\ c1.sni = c2.sni
    /\ c1.alpn_protocols = c2.alpn_protocols
    /\ \A f \in GreaseFields : WithoutGrease(c1[f]) = WithoutGrease(c2[f])

\* C9: the full string of every fingerprint calculate_ja4 returns matches
\* the JA4 format, so the format check of /analyze accepts it.
C9_FullMatchesFormat ==
    \A k \in 1..Len(calls) : AnalyzeFormatOk(calls[k].fp.full)

\* C10: two calls of calculate_ja4 on ClientHello values that differ only by
\* GREASE codes in cipher_suites, extensions, supported_versions or
\* signature_algorithms return the same full string.
C10_GreaseNeverInfluences ==
    \A k, m \in 1..Len(calls) :
        SameButGrease(calls[k].arg, calls[m].arg)
            => calls[k].fp.full = calls[m].fp.full

\* The list holds GREASE codes only (or nothing).
OnlyGrease(s) == \A k \in 1..Len(s) : s[k] \in GREASE_VALUES

\* compute_hash(""), the truncated hash of the empty string: e3b0c44298fc.
EmptyHash == <<101, 51, 98, 48, 99, 52, 52, 50, 57, 56, 102, 99>>

\* The characters of section_a that hold the cipher count, the extension
\* count.
CipherCountOf(fp) == SubSeq(fp.a, 5, 6)
ExtCountOf(fp) == SubSeq(fp.a, 7, 8)

\* C11, as amended: when cipher_suites holds GREASE codes only, the cipher
\* count is "00" and section_b is the hash of the empty string; when
\* extensions holds GREASE codes only, the extension count is "00" and
\* section_c is the hash of the empty string if signature_algorithms is
\* empty, and otherwise the hash of "_" followed by the signature algorithms.
C11_GreaseOnlyLists ==
    \A k \in 1..Len(calls) :
        LET h == calls[k].arg
            fp == calls[k].fp
        IN  /\ OnlyGrease(h.cipher_suites) =>
                  /\ CipherCountOf(fp) = Zeros
                  /\ calls[k].hashed.b = <<>>
                  /\ fp.b = EmptyHash
            /\ OnlyGrease(h.extensions) =>
                  /\ ExtCountOf(fp) = Zeros
                  /\ h.signature_algorithms = <<>> =>
                        (calls[k].hashed.c = <<>> /\ fp.c = EmptyHash)
                  /\ h.signature_algorithms # <<>> =>
                        /\ calls[k].hashed.c =
                               <<95>> \o HexList(h.signature_algorithms)
                        /\ fp.c # EmptyHash

\* A ClientHello whose two lists hold GREASE codes only, with no signature
\* algorithms, gave "0000" and twice the hash of the empty string.
C11_Witness ==
    \E k \in 1..Len(calls) :
        /\ calls[k].arg.cipher_suites = <<\h0a0a, \h1a1a>>
        /\ calls[k].arg.extensions = <<\h2a2a>>
        /\ calls[k].arg.signature_algorithms = <<>>
        /\ calls[k].arg.sni = ExampleCom
        /\ SubSeq(calls[k].fp.a, 5, 8) = <<48, 48, 48, 48>>
        /\ calls[k].fp.b = EmptyHash
        /\ calls[k].fp.c = EmptyHash

\* C11, as stated: whatever signature_algorithms is, GREASE-only lists give
\* counts of "00" and the hash of the empty string for section_b, section_c.
C11_GreaseOnlyEmptyHashes ==
    \A k \in 1..Len(calls) :
        /\ OnlyGrease(calls[k].arg.cipher_suites) =>
              (CipherCountOf(calls[k].fp) = Zeros /\ calls[k].fp.b = EmptyHash)
        /\ OnlyGrease(calls[k].arg.extensions) =>
              (ExtCountOf(calls[k].fp) = Zeros /\ calls[k].fp.c = EmptyHash)

\* Two lists with the same codes, each as many times in the one as in the
\* other.
IsPermutation(s, t) ==
    /\ Len(s) = Len(t)
    /\ \A v \in {s[k] : k \in 1..Len(s)} \cup {t[k] : k \in 1..Len(t)} :
          Cardinality({k \in 1..Len(s) : s[k] = v})
              = Cardinality({k \in 1..Len(t) : t[k] = v})

\* Two ClientHello values that are equal in every field not named.
SameExcept(c1, c2, names) ==
    \A f \in DOMAIN c1 \ names : c1[f] = c2[f]

\* C12: two calls of calculate_ja4 on ClientHello values that differ only in
\* the order of cipher_suites, or only in the order of extensions, return
\* the same full string.
C12_OrderOfCodesIgnored ==
    \A k, m \in 1..Len(calls) :
        \A f \in {"cipher_suites", "extensions"} :
            (/\ SameExcept(calls[k].arg, calls[m].arg, {f})
             /\ IsPermutation(calls[k].arg[f], calls[m].arg[f]))
                => calls[k].fp.full = calls[m].fp.full

\* Two calls on ClientHello values whose six extensions are in a different
\* order gave the same full string.
C12_Witness ==
    /\ Len(calls) = 2
    /\ swapped = 1
    /\ calls[1].arg.signature_algorithms = calls[2].arg.signature_algorithms
    /\ calls[1].arg.extensions # calls[2].arg.extensions
    /\ Len(calls[1].arg.extensions) = 6
    /\ calls[1].fp.full = calls[2].fp.full

\* C13: two calls of calculate_ja4 on ClientHello values that differ only in
\* the order of signature_algorithms hash different strings for section_c
\* and return different section_c, the same section_a and section_b.
C13_OrderOfSigAlgsKept ==
    \A k, m \in 1..Len(calls) :
        (/\ SameExcept(calls[k].arg, calls[m].arg, {"signature_algorithms"})
         /\ IsPermutation(calls[k].arg.signature_algorithms,
                          calls[m].arg.signature_algorithms)
         /\ calls[k].arg.signature_algorithms
                # calls[m].arg.signature_algorithms)
            => /\ calls[k].hashed.c # calls[m].hashed.c
               /\ calls[k].fp.c # calls[m].fp.c
               /\ calls[k].fp.a = calls[m].fp.a
               /\ calls[k].fp.b = calls[m].fp.b

\* Two calls on ClientHello values whose signature_algorithms are in a
\* different order gave different section_c.
C13_Witness ==
    /\ Len(calls) = 2
    /\ swapped = 1
    /\ calls[1].arg.signature_algorithms = <<\h0403, \h0804>>
    /\ calls[2].arg.signature_algorithms = <<\h0804, \h0403>>
    /\ calls[1].fp.c # calls[2].fp.c
    /\ calls[1].fp.b = calls[2].fp.b

\* The table of claim C15: "13", "12", "11", "10", "s3", "d2", "d1", and
\* "00" for any other code.
VersionTable(code) ==
    LET table == (\h0304 :> <<49, 51>>) @@ (\h0303 :> <<49, 50>>)
                 @@ (\h0302 :> <<49, 49>>) @@ (\h0301 :> <<49, 48>>)
                 @@ (\h0300 :> <<115, 51>>) @@ (\hfefd :> <<100, 50>>)
                 @@ (\hfeff :> <<100, 49>>)
    IN  IF code \in DOMAIN table THEN table[code] ELSE <<48, 48>>

\* C15: the two version characters of section_a are the table entry of the
\* effective version: the largest non-GREASE value of supported_versions if
\* there is one, the legacy version field if there is none.
C15_VersionCharacters ==
    \A k \in 1..Len(calls) :
        LET h == calls[k].arg
            offered == {h.supported_versions[j] :
                            j \in 1..Len(h.supported_versions)}
                       \ GREASE_VALUES
            effective ==
                IF offered # {}
                THEN CHOOSE v \in offered : \A w \in offered : w <= v
                ELSE h.version
        IN  SubSeq(calls[k].fp.a, 2, 3) = VersionTable(effective)

\* A call with legacy version 0x0303 and supported_versions holding two
\* GREASE codes and 0x0300 gave "s3".
C15_Witness ==
    \E k \in 1..Len(calls) :
        /\ calls[k].arg.version = \h0303
        /\ calls[k].arg.supported_versions = <<\hfafa, \h0a0a, \h0300>>
        /\ SubSeq(calls[k].fp.a, 2, 3) = <<115, 51>>

\* C16: the fourth character of section_a is "d" exactly when sni is
\* present, the empty host name included, and "i" exactly when it is absent.
C16_SniFlagTellsPresence ==
    \A k \in 1..Len(calls) :
        /\ calls[k].fp.a[4] \in {100, 105}
        /\ calls[k].fp.a[4] = 100 <=> calls[k].arg.sni # NoneStr

\* C17: characters 5-6 of section_a are min(n, 99) in two decimal digits, n
\* the number of non-GREASE entries of cipher_suites, duplicates counted;
\* characters 7-8 are the same for extensions, SNI and ALPN codes counted;
\* section_a has the same ten characters for any list length.
C17_CountsClampedTwoDigits ==
    \A k \in 1..Len(calls) :
        LET h == calls[k].arg
            Count(list) ==
                Cardinality({j \in 1..Len(list) : list[j] \notin GREASE_VALUES})
            TwoDigits(n) ==
                LET m == IF n > 99 THEN 99 ELSE n
                IN  <<48 + (m \div 10), 48 + (m % 10)>>
        IN  /\ Len(calls[k].fp.a) = 10
            /\ CipherCountOf(calls[k].fp) = TwoDigits(Count(h.cipher_suites))
            /\ ExtCountOf(calls[k].fp) = TwoDigits(Count(h.extensions))

\* A call with more than 99 cipher suites, none of them GREASE, gave "99"
\* for them and "01" for its one extension.
C17_Witness ==
    \E k \in 1..Len(calls) :
        /\ Len(calls[k].arg.cipher_suites) > 99
        /\ \A j \in 1..Len(calls[k].arg.cipher_suites) :
               calls[k].arg.cipher_suites[j] \notin GREASE_VALUES
        /\ CipherCountOf(calls[k].fp) = <<57, 57>>
        /\ Len(calls[k].arg.extensions) = 1
        /\ ExtCountOf(calls[k].fp) = <<48, 49>>

\* C18: the last two characters of section_a are "00" when alpn_protocols is
\* empty; otherwise, with s the first protocol without its non-alphanumeric
\* characters, "00" if s is empty, its one character twice if it has one, its
\* first and last character if it has more. Later protocols play no part.
C18_AlpnCode ==
    \A k \in 1..Len(calls) :
        LET names == calls[k].arg.alpn_protocols
            code == SubSeq(calls[k].fp.a, 9, 10)
            kept == {j \in 1..Len(names[1]) : IsAlnum(names[1][j])}
            first == CHOOSE j \in kept : \A m \in kept : j <= m
            last == CHOOSE j \in kept : \A m \in kept : m <= j
        IN  IF names = <<>> THEN code = <<48, 48>>
            ELSE IF kept = {} THEN code = <<48, 48>>
            ELSE code = <<names[1][first], names[1][last]>>

\* A call whose first protocol is "http/1.1", followed by "h2", gave "h1".
C18_Witness ==
    \E k \in 1..Len(calls) :
        /\ calls[k].arg.alpn_protocols = <<Http11, H2>>
        /\ SubSeq(calls[k].fp.a, 9, 10) = <<104, 49>>

\* Strings and the first 12 hex characters of their SHA-256 digests, as
\* hashlib.sha256(s.encode()).hexdigest()[:12] gives them.
KnownDigests ==
    {
      \* "" -> "e3b0c44298fc"
      <<<<>>,
        <<101, 51, 98, 48, 99, 52, 52, 50, 57, 56, 102, 99>>>>,
      \* "1301,1302" -> "62ed6f6ca7ad"
      <<<<49, 51, 48, 49, 44, 49, 51, 48, 50>>,
        <<54, 50, 101, 100, 54, 102, 54, 99, 97, 55, 97, 100>>>>,
      \* "1301,1302,1303,c02b,c02c" -> "bf5bdbdbea07"
      <<<<49, 51, 48, 49, 44, 49, 51, 48, 50, 44, 49, 51, 48, 51, 44, 99, 48, 50, 98, 44, 99, 48, 50, 99>>,
        <<98, 102, 53, 98, 100, 98, 100, 98, 101, 97, 48, 55>>>>,
      \* "c02b" -> "648b5c445417"
      <<<<99, 48, 50, 98>>,
        <<54, 52, 56, 98, 53, 99, 52, 52, 53, 52, 49, 55>>>>,
      \* "002b" -> "b9a491fefe05"
      <<<<48, 48, 50, 98>>,
        <<98, 57, 97, 52, 57, 49, 102, 101, 102, 101, 48, 53>>>>,
      \* "000d,002b,0033_0403,0503,0603" -> "c0cb44ba0808"
      <<<<48, 48, 48, 100, 44, 48, 48, 50, 98, 44, 48, 48, 51, 51, 95, 48, 52, 48, 51, 44, 48, 53, 48, 51, 44, 48, 54, 48, 51>>,
        <<99, 48, 99, 98, 52, 52, 98, 97, 48, 56, 48, 56>>>>,
      \* "002b_0403" -> "7349c354053c"
      <<<<48, 48, 50, 98, 95, 48, 52, 48, 51>>,
        <<55, 51, 52, 57, 99, 51, 53, 52, 48, 53, 51, 99>>>>,
      \* "002b_0a0a,0403" -> "59ad09c95f07"
      <<<<48, 48, 50, 98, 95, 48, 97, 48, 97, 44, 48, 52, 48, 51>>,
        <<53, 57, 97, 100, 48, 57, 99, 57, 53, 102, 48, 55>>>>
    }

\* The digest of every string of the table is the one of the table.
DigestAsKnown(str, digest) ==
    \A row \in KnownDigests : row[1] = str => row[2] = digest

\* The number a string of four lowercase hex digits stands for.
HexValue(str) ==
    LET Digit(d) == IF d <= 57 THEN d - 48 ELSE d - 87
    IN  ((Digit(str[1]) * 16 + Digit(str[2])) * 16 + Digit(str[3])) * 16
            + Digit(str[4])

\* str is the codes of the list, in the order of the list, each as four
\* lowercase hex digits, with one comma between two of them.
RendersCodes(str, codes) ==
    LET n == Len(codes)
    IN  /\ Len(str) = IF n = 0 THEN 0 ELSE 5 * n - 1
        /\ \A k \in 1..n :
              /\ \A j \in (5 * k - 4)..(5 * k - 1) :
                    str[j] \in (48..57) \cup (97..102)
              /\ HexValue(SubSeq(str, 5 * k - 4, 5 * k - 1)) = codes[k]
              /\ k < n => str[5 * k] = 44

\* The list is ascending and holds the codes of the other list.
IsSortedFrom(list, other) ==
    /\ IsPermutation(list, other)
    /\ \A k \in 1..(Len(list) - 1) : list[k] <= list[k + 1]

\* The codes a string of RendersCodes shape stands for.
CodesOf(str) ==
    <<>> \o [k \in 1..((Len(str) + 1) \div 5) |->
                HexValue(SubSeq(str, 5 * k - 4, 5 * k - 1))]

\* C19: section_b is the first 12 hex characters of the SHA-256 of the
\* non-GREASE entries of cipher_suites, sorted ascending with duplicates
\* kept, each as 4-digit lowercase hex, joined with ","; the empty string
\* when no entry remains. No other field of the ClientHello influences it.
C19_SectionBString ==
    /\ \A k \in 1..Len(calls) :
          LET str == calls[k].hashed.b
          IN  /\ RendersCodes(str, CodesOf(str))
              /\ IsSortedFrom(CodesOf(str),
                              WithoutGrease(calls[k].arg.cipher_suites))
              /\ DigestAsKnown(str, calls[k].fp.b)
    /\ \A k, m \in 1..Len(calls) :
          IsPermutation(WithoutGrease(calls[k].arg.cipher_suites),
                        WithoutGrease(calls[m].arg.cipher_suites))
              => calls[k].fp.b = calls[m].fp.b

\* A call with cipher suites 1301, 1302, 1303, c02c, c02b and a GREASE code
\* hashed "1301,1302,1303,c02b,c02c" and returned "bf5bdbdbea07".
C19_Witness ==
    \E k \in 1..Len(calls) :
        /\ calls[k].arg.cipher_suites
               = <<\h1301, \h1302, \h1303, \hc02c, \hc02b, \h0a0a>>
        /\ calls[k].hashed.b = <<49, 51, 48, 49, 44, 49, 51, 48, 50, 44, 49, 51, 48, 51, 44, 99, 48, 50, 98, 44, 99, 48, 50, 99>>
        /\ calls[k].fp.b = <<98, 102, 53, 98, 100, 98, 100, 98, 101, 97, 48, 55>>

\* C20: section_c is the truncated hash of the entries of extensions that
\* are neither GREASE nor SNI (0x0000) nor ALPN (0x0010), sorted ascending,
\* as 4-digit hex joined with ","; followed, only when signature_algorithms
\* is not empty, by "_" and the signature_algorithms as 4-digit hex joined
\* with "," in their original order.
C20_SectionCString ==
    \A k \in 1..Len(calls) :
        LET h == calls[k].arg
            str == calls[k].hashed.c
            kept == SelectSeq(WithoutGrease(h.extensions),
                              LAMBDA e : e \notin {0, 16})
            extLen == IF kept = <<>> THEN 0 ELSE 5 * Len(kept) - 1
            extPart == SubSeq(str, 1, extLen)
            rest == SubSeq(str, extLen + 1, Len(str))
        IN  /\ Len(str) >= extLen
            /\ RendersCodes(extPart, CodesOf(extPart))
            /\ IsSortedFrom(CodesOf(extPart), kept)
            /\ IF h.signature_algorithms = <<>>
               THEN rest = <<>>
               ELSE /\ rest # <<>>
                    /\ Head(rest) = 95
                    /\ RendersCodes(Tail(rest), h.signature_algorithms)
            /\ DigestAsKnown(str, calls[k].fp.c)

\* A call with extensions 0000, 0010, 002b, 000d, 0033 and a GREASE code, and
\* signature algorithms 0403, 0503, 0603, hashed
\* "000d,002b,0033_0403,0503,0603" and returned "c0cb44ba0808".
C20_Witness ==
    \E k \in 1..Len(calls) :
        /\ calls[k].arg.extensions
               = <<\h0000, \h0010, \h002b, \h000d, \h0033, \h1a1a>>
        /\ calls[k].arg.signature_algorithms = <<\h0403, \h0503, \h0603>>
        /\ calls[k].hashed.c = <<48, 48, 48, 100, 44, 48, 48, 50, 98, 44, 48, 48, 51, 51, 95, 48, 52, 48, 51, 44, 48, 53, 48, 51, 44, 48, 54, 48, 51>>
        /\ calls[k].fp.c = <<99, 48, 99, 98, 52, 52, 98, 97, 48, 56, 48, 56>>

\* Every thread whose call is over has what the call gave when it ran with
\* no other call beside it.
SameAsAlone ==
    alone.concurrent =>
        \A t \in Threads :
            Finished(FrameOf(t)) => Outcome(FrameOf(t)) = alone.outcomes[t]

\* Calls of calculate_ja4 on equal ClientHello values gave the same a, b, c
\* and full.
Deterministic ==
    \A t \in Threads :
        LET made == FrameOf(t).calls
        IN  \A k, m \in 1..Len(made) :
                made[k].arg = made[m].arg => made[k].fp = made[m].fp

C21_EngineNeverRaises ==
    \A k \in 1..Len(calls) :
        /\ calls[k].raised = ""
        /\ DOMAIN calls[k].fp = {"full", "a", "b", "c"}

\* The call on the ClientHello built from a version and two empty lists,
\* with a GREASE code as the one supported version, returned "t12i000000"
\* and the hash of the empty string twice.
C21_Witness ==
    \E k \in 1..Len(calls) :
        /\ calls[k].arg =
               [MinimalHello EXCEPT !.supported_versions = <<\h0a0a>>]
        /\ calls[k].raised = ""
        /\ calls[k].fp.a = <<116, 49, 50, 105, 48, 48, 48, 48, 48, 48>>
        /\ calls[k].fp.b = EmptyHash
        /\ calls[k].fp.c = EmptyHash

C24_LayoutOfFull ==
    \A k \in 1..Len(calls) :
        LET fp == calls[k].fp
            digits == 48..57
            versions == {VersionTable(v) :
                            v \in {\h0304, \h0303, \h0302, \h0301, \h0300,
                                   \hfefd, \hfeff, 0}}
            NoSeparator(str) == \A j \in 1..Len(str) : str[j] # 95
        IN  /\ fp.full = fp.a \o <<95>> \o fp.b \o <<95>> \o fp.c
            /\ Len(fp.a) = 10
            /\ fp.a[1] = 116
            /\ SubSeq(fp.a, 2, 3) \in versions
            /\ fp.a[4] \in {100, 105}
            /\ \A j \in 5..8 : fp.a[j] \in digits
            /\ SubSeq(fp.a, 9, 10) = get_alpn_code(calls[k].arg.alpn_protocols)
            /\ NoSeparator(fp.a) /\ NoSeparator(fp.b) /\ NoSeparator(fp.c)

\* The call on the ClientHello of the "GREASE filtering" test case returned
\* a full string of 36 characters with "_" at places 11 and 24 only.
C24_Witness ==
    \E k \in 1..Len(calls) :
        /\ calls[k].arg = GreaseFiltering
        /\ Len(calls[k].fp.full) = 36
        /\ {j \in 1..36 : calls[k].fp.full[j] = 95} = {11, 24}
        /\ SubSeq(calls[k].fp.full, 1, 10) = calls[k].fp.a

\* C26 as it is worded: for the ClientHello of end-to-end scenario 1
\* section_a is not "t13d0505h2".
C26_ScenarioOneIsNotT13d0505h2 ==
    \A k \in 1..Len(calls) :
        calls[k].arg = ChromeLike(\h0304)
            => calls[k].fp.a # <<116, 49, 51, 100, 48, 53, 48, 53, 104, 50>>

\* C26: for the ClientHello of end-to-end scenario 1 (version 0x0304, five
\* cipher suites and a GREASE code, five extensions and a GREASE code, sni
\* "example.com", ALPN "h2" first) section_a is "t13d0505h2".
C26_ScenarioOneIsT13d0505h2 ==
    \A k \in 1..Len(calls) :
        calls[k].arg = ChromeLike(\h0304)
            => calls[k].fp.a = <<116, 49, 51, 100, 48, 53, 48, 53, 104, 50>>

\* calculate_ja4 was called on the ClientHello of scenario 1.
C26_Witness ==
    \E k \in 1..Len(calls) :
        /\ calls[k].arg = ChromeLike(\h0304)
        /\ calls[k].arg.supported_versions = <<>>
        /\ calls[k].fp.a = <<116, 49, 51, 100, 48, 53, 48, 53, 104, 50>>

\* C25: for every code of 16 bits, is_grease is true exactly when the high
\* byte equals the low byte and the low hex digit of that byte is a; these
\* are 16 codes.
C25_GreaseIs0xXaXa ==
    /\ probe.called =>
          (probe.answer <=>
              /\ probe.code \div 256 = probe.code % 256
              /\ probe.code % 16 = 10)
    /\ Cardinality(GREASE_VALUES) = 16

\* is_grease was asked about 0xbaba and said yes.
C25_Witness ==
    /\ probe.called
    /\ probe.code = \hbaba
    /\ probe.answer

\* A packet whose processing an exception ended.
Failing(p) == p.layers /\ p.fault \in {"fields", "calculate_ja4", "source_ip"}

\* What a capture none of whose packets fails gives: one entry for each
\* packet with a ClientHello, in the order of the capture.
ResultsOf(capture) ==
    LET hellos == SelectSeq(capture, LAMBDA p : p.layers)
        SniOf(p) == IF p.fault = "servername" THEN NoneStr ELSE p.hello.sni
    IN  <<>> \o [k \in 1..Len(hellos) |->
                    <<IF hellos[k].src = "" THEN "unknown" ELSE hellos[k].src,
                      Ja4Table[[hellos[k].hello EXCEPT !.sni = SniOf(hellos[k])]]>>]

\* The packets the loop is done with.
Handled ==
    SubSeq(packets, 1, IF batch_pc \in {"for", "returned", "import"}
                       THEN pkt_index ELSE pkt_index - 1)

\* C23: a failure while one packet of a capture is processed ends the
\* processing of that packet only.  Every later packet is processed, and
\* the list returned holds one fingerprint for each packet processed with
\* success, in capture order: the list the capture without the failing
\* packets gives.
C23_FailureEndsOneRecordOnly ==
    /\ results = ResultsOf(SelectSeq(Handled, LAMBDA p : ~Failing(p)))
    /\ (batch_pc = "returned" /\ stderr # <<"ImportError">>)
          => pkt_index = Len(packets)

\* A capture whose first packet failed at its source address and whose two
\* later packets were processed: two results, one line of error.
C23_Witness ==
    /\ batch_pc = "returned"
    /\ Len(packets) = 3
    /\ packets[1].fault = "source_ip"
    /\ packets[2].layers /\ packets[2].fault = "none"
    /\ packets[3].layers /\ packets[3].fault = "servername"
    /\ Len(results) = 2
    /\ results[1][1] = packets[2].src
    \* "t12i0204h2_62ed6f6ca7ad_3953dc75acc4"
    /\ results[2][2].full =
          <<116, 49, 50, 105, 48, 50, 48, 52, 104, 50, 95, 54,
            50, 101, 100, 54, 102, 54, 99, 97, 55, 97, 100, 95,
            51, 57, 53, 51, 100, 99, 55, 53, 97, 99, 99, 52>>
    /\ stderr = <<"Error processing packet">>

-----------------------------------------------------------------------------
(* The claims about the extension bodies parse_client_hello_raw decodes. *)

\* sni_len = struct.unpack(">H", ext_data[3:5])[0], when the SNI branch gets
\* as far as its last statement.
SniLen(ed) == UnpackH(Slice(ed, 3, 5))

\* C27: the SNI branch skips the list length and the name type, reads the
\* name length L and sets sni to exactly the next L bytes decoded as UTF-8;
\* it sets no name of fewer than L bytes when fewer than L bytes remain in
\* the extension body.
C27_SniHasDeclaredLength ==
    [][(pc = "sni" /\ pc' = "ext_next" /\ SniBody(ext_data).exc = "") =>
          /\ sni' = Utf8Decode(Slice(ext_data, 5, 5 + SniLen(ext_data))).str
          /\ Len(Utf8Encode(sni')) = SniLen(ext_data)]_vars

\* proto_len = ext_data[alpn_offset]
ProtoLen(ed, at) == At(ed, at)

\* C28: the ALPN branch skips the list length and reads the names one after
\* another, so that alpn_protocols holds the names of the block in wire
\* order, each of exactly its declared length, and no name is made of bytes
\* beyond the extension body.
C28_AlpnNamesHaveDeclaredLength ==
    [][(pc = "alpn_loop" /\ alpn_protocols' # alpn_protocols) =>
          LET proto_len == ProtoLen(ext_data, alpn_offset)
              proto == alpn_protocols'[Len(alpn_protocols')]
          IN  /\ alpn_protocols' = Append(alpn_protocols, proto)
              /\ proto = Utf8Decode(Slice(ext_data, alpn_offset + 1,
                                          alpn_offset + 1 + proto_len)).str
              /\ Len(Utf8Encode(proto)) = proto_len
              /\ alpn_offset + 1 + proto_len <= Len(ext_data)]_vars

\* The codes a list of n bytes gives that starts `from` bytes into the
\* extension body ed: one code for each even offset below n, as long as 2
\* bytes are there to unpack.
CodesRead(ed, from, n) ==
    LET present == IF Len(ed) > from THEN (Len(ed) - from) \div 2 ELSE 0
        passes == Min((n + 1) \div 2, present)
    IN  [j \in 1..passes |-> ed[from + 2 * j - 1] * 256 + ed[from + 2 * j]]

EndsWith(s, t) ==
    /\ Len(s) >= Len(t)
    /\ SubSeq(s, Len(s) - Len(t) + 1, Len(s)) = t

\* The codes the record w carries in its extension of type t.
WireCodes(w, t, from) ==
    Cat([k \in 1..Len(w.exts) |->
           IF w.exts[k].type = t
             THEN CodesRead(w.exts[k].body, from, Len(w.exts[k].body))
           ELSE <<>>])

\* C29, as amended: the leading byte n of a supported_versions body and the
\* leading 2-byte value m of a signature_algorithms body are lengths in
\* bytes.  The parser appends one 2-byte code for each even offset below
\* that length, in wire order, and stops where fewer than 2 bytes are left
\* in the body: n / 2 codes for a list as TLS writes it.
C29_ListLengthsAreByteLengths ==
    /\ (pc = "ext_next" /\ ext_type = EXT_SUPPORTED_VERSIONS /\ ext_len > 0
           /\ Len(ext_data) >= 1) =>
          EndsWith(supported_versions, CodesRead(ext_data, 1, ext_data[1]))
    /\ (pc = "ext_next" /\ ext_type = EXT_SIGNATURE_ALGORITHMS /\ ext_len > 0
           /\ Len(ext_data) >= 2) =>
          EndsWith(signature_algorithms,
                   CodesRead(ext_data, 2, UnpackH(SubSeq(ext_data, 1, 2))))
    /\ (pc = "done" /\ tampered = 0 /\ ~truncated) =>
          /\ result.supported_versions =
                 WireCodes(wire, EXT_SUPPORTED_VERSIONS, 1)
          /\ result.signature_algorithms =
                 WireCodes(wire, EXT_SIGNATURE_ALGORITHMS, 2)

\* A supported_versions list of 4 bytes and a signature_algorithms list of
\* 4 bytes have given 2 codes each.
C29_Witness ==
    /\ pc = "ext_next"
    /\ tampered = 0
    /\ ext_type = EXT_SIGNATURE_ALGORITHMS
    /\ Len(ext_data) = 6
    /\ UnpackH(SubSeq(ext_data, 1, 2)) = 4
    /\ signature_algorithms = <<\h0403, \h0804>>
    /\ supported_versions = <<\h0a0a, \h0304>>

\* C29, as stated: the leading byte n of a supported_versions body and the
\* leading 2-byte value m of a signature_algorithms body count entries; the
\* parser reads exactly n version codes and exactly m algorithm codes.
C29_ListLengthsAreCounts ==
    /\ (pc = "ext_next" /\ ext_type = EXT_SUPPORTED_VERSIONS /\ ext_len > 0
           /\ Len(ext_data) >= 1) =>
          Len(supported_versions) = ext_data[1]
    /\ (pc = "ext_next" /\ ext_type = EXT_SIGNATURE_ALGORITHMS /\ ext_len > 0
           /\ Len(ext_data) >= 2) =>
          Len(signature_algorithms) = UnpackH(SubSeq(ext_data, 1, 2))

-----------------------------------------------------------------------------
(* Termination of parse_client_hello_raw. *)

\* The statements of parse_client_hello_raw: all of Next but what the caller
\* does before the call.
ParserNext ==
    \/ RecordHeader
    \/ HandshakeHeader
    \/ ClientVersion
    \/ SessionId
    \/ CipherSuitesLen
    \/ CipherLoop
    \/ Compression
    \/ ExtensionsBlock
    \/ ExtLoop
    \/ Sni
    \/ AlpnLen
    \/ AlpnLoop
    \/ VerListLen
    \/ VerLoop
    \/ SigListLen
    \/ SigLoop
    \/ ExtNext
    \/ ReturnHello
    \/ OuterExcept

\* Once called, the function goes on executing: the interpreter takes the
\* next statement as long as there is one.
LiveSpec == Init /\ [][Next]_vars /\ WF_vars(ParserNext)

\* The call is under way.
Called == pc \notin {"input", "done", "escaped"}

\* C30: the call terminates on every buffer.  Each pass of the extension
\* loop moves offset on by at least 4, each pass of the ALPN loop moves
\* alpn_offset on by at least 1, whatever the lengths read, and the passes
\* of the cipher-suite, supported_versions and signature_algorithms loops
\* are bounded by the length declared: every call comes back.
C30_ParserTerminates ==
    /\ [][/\ pc = "ext_next" =>
                (offset' >= offset + 4 /\ offset' = offset + 4 + ext_len)
          /\ (pc = "alpn_loop" /\ pc' = "alpn_loop") =>
                (alpn_offset' >= alpn_offset + 1 /\ alpn_offset < 2 + list_len)
          /\ (pc = "cipher_loop" /\ pc' = "cipher_loop") =>
                (i' = i + 2 /\ i < cipher_suites_len)
          /\ (pc \in {"ver_loop", "sig_loop"} /\ pc' = pc) =>
                (i' = i + 2 /\ i < list_len)
          /\ (Called /\ pc \notin {"alpn_loop", "alpn_len"}) =>
                UNCHANGED alpn_offset
          /\ (Called /\ pc # "ext_next"
                 /\ pc \notin {"record_header", "handshake_header",
                               "client_version", "session_id",
                               "cipher_suites_len", "cipher_loop",
                               "compression", "extensions_block"}) =>
                UNCHANGED <<offset, ext_end>>]_vars
    /\ Called ~> pc = "done"

\* A call has come back from a record with an extension of length 0 and a
\* protocol name of length 0.
C30_Witness ==
    /\ pc = "done"
    /\ tampered = 1
    /\ IsHello(result)
    /\ result.extensions = <<\h1a1a, EXT_ALPN, \h0033, EXT_SNI>>
    /\ result.alpn_protocols = << <<104, 50>>, <<>>, <<>> >>

=============================================================================
